---- MODULE Spec2Model ----
(***************************************************************************)
(* State-machine model of the folding-scheme library: the Nova IVC driver  *)
(* (src/src/folding/nova/ivc.rs, mod.rs), the relation evaluation of       *)
(* arith/r1cs, the KZG commitment scheme and the onchain (EVM) decider     *)
(* (folding-schemes/src/folding/nova/decider_eth.rs).                      *)
(*                                                                         *)
(* Fields and groups are scaled down: the scalar field C1::ScalarField is  *)
(* Z_P, the base field C1::BaseField is Z_Q, and C1 is the curve           *)
(* y^2 = x^3 + 6 over Z_Q, which is cyclic of prime order P.  A point is   *)
(* written as its multiple k of the generator (k = 0 is the identity);     *)
(* AffineXY gives its affine coordinates.                                  *)
(***************************************************************************)
EXTENDS Integers, Sequences, FiniteSets, TLC

\* ------------------------------------------------------------------------
\* Bounds of the model
\* ------------------------------------------------------------------------
MaxSteps == 3        \* prove_step is called at most this many times successfully
MaxSeed == 1         \* the RNG handed to IVC::new yields one of MaxSeed outcomes
MaxConfig == 1       \* number of transcript configurations tried

\* ------------------------------------------------------------------------
\* Fields and the group
\* ------------------------------------------------------------------------
P == 7               \* modulus of C1::ScalarField
Q == 13              \* modulus of C1::BaseField
Fr == 0..(P - 1)
Fq == 0..(Q - 1)

FAdd(a, b) == (a + b) % P
FSub(a, b) == (a + (P - (b % P))) % P
FMul(a, b) == (a * b) % P
FNeg(a) == (P - (a % P)) % P

\* C1 as an additive group: the point k*G is written k.
G1 == 0..(P - 1)
C1_zero == 0
C1_generator == 1
PointAdd(p1, p2) == (p1 + p2) % P
PointMul(p1, s) == (p1 * s) % P

\* Affine coordinates of k*G on y^2 = x^3 + 6 over Z_13, G = (2, 1); the
\* identity has no affine coordinates (Option::None of AffineRepr::xy).
AffineXY(p1) ==
    CASE p1 = 1 -> <<2, 1>>
      [] p1 = 2 -> <<6, 1>>
      [] p1 = 3 -> <<5, 12>>
      [] p1 = 4 -> <<5, 1>>
      [] p1 = 5 -> <<6, 12>>
      [] p1 = 6 -> <<2, 12>>

\* ------------------------------------------------------------------------
\* Vectors and matrices (utils::vec)
\* ------------------------------------------------------------------------
RECURSIVE SumSeq(_)
SumSeq(s) == IF s = <<>> THEN 0 ELSE FAdd(Head(s), SumSeq(Tail(s)))

RECURSIVE Concat(_)
Concat(ss) == IF ss = <<>> THEN <<>> ELSE Head(ss) \o Concat(Tail(ss))

Zeros(n) == [k \in 1..n |-> 0]
is_zero_vec(v) == \A k \in 1..Len(v) : v[k] = 0
vec_add(a, b) == [k \in 1..Len(a) |-> FAdd(a[k], b[k])]
vec_sub(a, b) == [k \in 1..Len(a) |-> FSub(a[k], b[k])]
vec_scalar_mul(a, c) == [k \in 1..Len(a) |-> FMul(a[k], c)]
hadamard(a, b) == [k \in 1..Len(a) |-> FMul(a[k], b[k])]
\* M is [n_rows, n_cols, rows]; rows[r][c] is the coefficient of column c.
mat_vec_mul(M, z) ==
    [r \in 1..M.n_rows |-> SumSeq([c \in 1..M.n_cols |-> FMul(M.rows[r][c], z[c])])]

\* ------------------------------------------------------------------------
\* Hashing and the transcript (external collaborators: Poseidon CRH/sponge)
\* ------------------------------------------------------------------------
\* A deterministic, order- and length-sensitive hash into Z_P.
RECURSIVE CRH_evaluate(_)
CRH_evaluate(s) ==
    IF s = <<>> THEN 1
    ELSE (3 * CRH_evaluate(SubSeq(s, 1, Len(s) - 1)) + s[Len(s)] + 1) % P

\* Limbs of a base-field element over the scalar field, most significant
\* first (AllocatedNonNativeFieldVar::get_limbs_representations).
LimbBase == 4
get_limbs_representations(v) == <<v \div LimbBase, v % LimbBase>>


\* ------------------------------------------------------------------------
\* Transcript: a duplex sponge, kept as its configuration and the log of
\* what was absorbed and squeezed.
\* ------------------------------------------------------------------------
N_BITS_CHALLENGE == 2    \* 128 in the source; scaled so that 2^n < P

Transcript_new(config) == [cfg |-> config, log |-> <<>>]
Transcript_absorb(t, v) ==
    [t EXCEPT !.log = Append(@, [op |-> "absorb", v |-> v])]
Transcript_absorb_vec(t, vs) ==
    [t EXCEPT !.log = @ \o [k \in 1..Len(vs) |-> [op |-> "absorb", v |-> vs[k]]]]
SpongeDigest(t) ==
    CRH_evaluate(<<t.cfg>> \o
        [k \in 1..Len(t.log) |-> IF t.log[k].op = "absorb" THEN t.log[k].v + 1 ELSE 0])
\* get_challenge: squeeze one field element
Transcript_get_challenge(t) ==
    [c |-> SpongeDigest(t),
     t |-> [t EXCEPT !.log = Append(@, [op |-> "squeeze", v |-> 0])]]
\* get_challenge_nbits(n): the n-bit prefix of the squeezed element
Transcript_get_challenge_nbits(t, n) ==
    [c |-> SpongeDigest(t) % (2 ^ n),
     t |-> [t EXCEPT !.log = Append(@, [op |-> "squeeze", v |-> 0])]]

\* ------------------------------------------------------------------------
\* Non-native representation of points (folding/circuits/nonnative.rs)
\* ------------------------------------------------------------------------
point_to_nonnative_limbs_zero_zero(p1) ==
    IF p1 = C1_zero
    THEN [x |-> get_limbs_representations(0), y |-> get_limbs_representations(0)]
    ELSE [x |-> get_limbs_representations(AffineXY(p1)[1]),
          y |-> get_limbs_representations(AffineXY(p1)[2])]
\* point_to_nonnative_limbs: the identity is hashed as the coordinates (0, 1)
point_to_nonnative_limbs(p1) ==
    IF p1 = C1_zero
    THEN [x |-> get_limbs_representations(0), y |-> get_limbs_representations(1)]
    ELSE [x |-> get_limbs_representations(AffineXY(p1)[1]),
          y |-> get_limbs_representations(AffineXY(p1)[2])]

\* NonNativeAffineVar::new_variable followed by reading the limbs' values
NonNativeAffineVar_new(p1) ==
    LET xy == IF p1 = C1_zero THEN <<0, 1>> ELSE AffineXY(p1)
    IN  [x |-> get_limbs_representations(xy[1]),
         y |-> get_limbs_representations(xy[2])]

\* ------------------------------------------------------------------------
\* Pedersen commitments
\* ------------------------------------------------------------------------
\* new_params(rng, max): max generators and the blinding generator h, all
\* different from the identity; seed stands for the state of the RNG.
Pedersen_new_params(seed, max) ==
    [scheme |-> "Pedersen",
     generators |-> [k \in 1..max |-> ((seed * k) % (P - 1)) + 1],
     h |-> ((seed * (max + 1)) % (P - 1)) + 1]

\* commit(params, v, r) = sum v_k * g_k + r * h
Pedersen_commit(params, v, r) ==
    PointAdd(SumSeq([k \in 1..Len(v) |-> PointMul(params.generators[k], v[k])]),
             PointMul(params.h, r))

\* Result values: Ok(v) or Err(e)
Ok(v) == [ok |-> TRUE, val |-> v, err |-> "none"]
Err(e) == [ok |-> FALSE, val |-> <<>>, err |-> e]
\* A call that does not return: the thread panics (an index out of range, an
\* arithmetic overflow in a build with overflow checks, expect on an Err)
Panic == [ok |-> FALSE, val |-> <<>>, err |-> "panic"]
\* usize: 64 bits on the source's targets, scaled
UsizeBits == 16
UsizeModulus == 2 ^ UsizeBits

\* ------------------------------------------------------------------------
\* KZG commitments (folding-schemes/src/commitment/kzg.rs).  A point is kept
\* as its discrete logarithm, so powers_of_g[k] = beta^(k-1) and the pairing
\* check e(C - y*g, h) = e(pi, beta*h - z*h) is an equation in Fr.
\* ------------------------------------------------------------------------
RECURSIVE next_power_of_two_from(_, _)
next_power_of_two_from(n, c) == IF c >= n THEN c ELSE next_power_of_two_from(n, 2 * c)
next_power_of_two(n) == next_power_of_two_from(n, 1)

RECURSIVE FPow(_, _)
FPow(a, e) == IF e = 0 THEN 1 ELSE FMul(a, FPow(a, e - 1))

\* KZG10::setup(len, false, rng): the powers beta^0 .. beta^len and the
\* verifier key; seed stands for the state of the RNG.
KZG10_setup(seed, len) ==
    LET beta == (seed % (P - 1)) + 1
    IN  [powers_of_g |-> [k \in 1..(len + 1) |-> PointMul(C1_generator, FPow(beta, k - 1))],
         h |-> 1, beta_h |-> beta]

\* usize::next_power_of_two: beyond the largest power of two of a usize it
\* panics in a build with overflow checks and returns 0 otherwise (the
\* outcomes, listed)
usize_next_power_of_two(len) ==
    IF next_power_of_two(len) < UsizeModulus THEN <<Ok(next_power_of_two(len))>>
    ELSE <<Panic, Ok(0)>>
\* KZG10::setup(max_degree, false, rng) rejects max_degree < 1
KZG10_setup_checked(seed, max_degree) ==
    IF max_degree < 1 THEN Err("DegreeIsZero") ELSE Ok(KZG10_setup(seed, max_degree))

KZG_setup_exclusive(seed, len) ==
    LET n == next_power_of_two(len)
        universal_params == KZG10_setup(seed, n)
    IN  [pk |-> [scheme |-> "KZG",
                 powers_of_g |-> SubSeq(universal_params.powers_of_g, 1, n)],
         vk |-> [g |-> universal_params.powers_of_g[1],
                 h |-> universal_params.h,
                 beta_h |-> universal_params.beta_h]]
\* setup(rng, len): the prover key keeps powers_of_g[..=len]
KZG_setup(seed, len) ==
    LET n == next_power_of_two(len)
        universal_params == KZG10_setup(seed, n)
    IN  [pk |-> [scheme |-> "KZG",
                 powers_of_g |-> SubSeq(universal_params.powers_of_g, 1, n + 1)],
         vk |-> [g |-> universal_params.powers_of_g[1],
                 h |-> universal_params.h,
                 beta_h |-> universal_params.beta_h]]

\* DensePolynomial::from_coefficients_vec: the coefficients, lowest first,
\* without the zero coefficients of highest degree
RECURSIVE DensePolynomial(_)
DensePolynomial(c) ==
    IF c # <<>> /\ c[Len(c)] = 0 THEN DensePolynomial(SubSeq(c, 1, Len(c) - 1))
    ELSE c
poly_degree(pol) == IF pol = <<>> THEN 0 ELSE Len(pol) - 1
RECURSIVE poly_evaluate(_, _)
poly_evaluate(pol, z) ==
    IF pol = <<>> THEN 0
    ELSE FAdd(pol[1], FMul(z, poly_evaluate(SubSeq(pol, 2, Len(pol)), z)))

\* poly_from_vec: the polynomial of the vector v
poly_from_vec(v) == Ok(DensePolynomial(v))

check_degree_is_too_large_ge(degree, num_powers) ==
    LET num_coefficients == degree + 1
    IN  IF num_coefficients >= num_powers THEN Err("TooManyCoefficients")
        ELSE Ok(<<>>)
check_degree_is_too_large(degree, num_powers) ==
    LET num_coefficients == degree + 1
    IN  IF num_coefficients > num_powers THEN Err("TooManyCoefficients")
        ELSE Ok(<<>>)

RECURSIVE count_first_zero_coeffs(_)
count_first_zero_coeffs(c) ==
    IF c # <<>> /\ c[1] = 0 THEN 1 + count_first_zero_coeffs(SubSeq(c, 2, Len(c)))
    ELSE 0
skip_first_zero_coeffs_and_convert_to_bigints_kept(pol) ==
    [num_leading_zeros |-> count_first_zero_coeffs(pol), coeffs |-> pol]
skip_first_zero_coeffs_and_convert_to_bigints(pol) ==
    LET num_leading_zeros == count_first_zero_coeffs(pol)
    IN  [num_leading_zeros |-> num_leading_zeros,
         coeffs |-> SubSeq(pol, num_leading_zeros + 1, Len(pol))]

\* VariableBaseMSM::msm_bigint(bases, scalars): pairs up to the shorter length
msm_bigint(bases, scalars) ==
    LET n == IF Len(bases) < Len(scalars) THEN Len(bases) ELSE Len(scalars)
    IN  SumSeq([k \in 1..n |-> PointMul(bases[k], scalars[k])])

\* setup(rng, len) as a call: the outcomes it can have, listed.  The Err of
\* KZG10::setup is unwrapped with expect("Setup failed").
KZG_setup_call(seed, len) ==
    LET outcome(n) == IF ~n.ok THEN n
                      ELSE IF ~KZG10_setup_checked(seed, n.val).ok THEN Panic
                      ELSE Ok(KZG_setup(seed, len))
    IN  [k \in DOMAIN usize_next_power_of_two(len) |->
            outcome(usize_next_power_of_two(len)[k])]

KZG_commit_blind_ignored(H, params, v, blind) ==
    IF H THEN Err("NotSupportedYet")
    ELSE LET polynomial == poly_from_vec(v).val
             chk == check_degree_is_too_large(poly_degree(polynomial),
                                              Len(params.powers_of_g))
             sk == skip_first_zero_coeffs_and_convert_to_bigints(polynomial)
         IN  IF ~chk.ok THEN chk
             ELSE Ok(msm_bigint(SubSeq(params.powers_of_g, sk.num_leading_zeros + 1,
                                       Len(params.powers_of_g)),
                                sk.coeffs))
KZG_commit(H, params, v, blind) ==
    IF blind # 0 \/ H THEN Err("NotSupportedYet")
    ELSE LET polynomial == poly_from_vec(v).val
             chk == check_degree_is_too_large(poly_degree(polynomial),
                                              Len(params.powers_of_g))
             sk == skip_first_zero_coeffs_and_convert_to_bigints(polynomial)
         IN  IF ~chk.ok THEN chk
             ELSE Ok(msm_bigint(SubSeq(params.powers_of_g, sk.num_leading_zeros + 1,
                                       Len(params.powers_of_g)),
                                sk.coeffs))

RECURSIVE quotient_coeff(_, _, _)
quotient_coeff(pol, z, k) ==
    IF k = Len(pol) - 1 THEN pol[Len(pol)]
    ELSE FAdd(pol[k + 1], FMul(z, quotient_coeff(pol, z, k + 1)))
divide_with_q_and_r_plus(pol, z) ==
    IF pol = <<>> THEN [q |-> <<>>, r |-> <<>>]
    ELSE IF Len(pol) = 1 THEN [q |-> <<>>, r |-> pol]
    ELSE LET q == [k \in 1..(Len(pol) - 1) |-> quotient_coeff(pol, FNeg(z), k)]
         IN  [q |-> DensePolynomial(q),
              r |-> DensePolynomial(<< FSub(pol[1], FMul(z, q[1])) >>)]
\* divide_with_q_and_r by the divisor X - challenge
divide_with_q_and_r(pol, z) ==
    IF pol = <<>> THEN [q |-> <<>>, r |-> <<>>]
    ELSE IF Len(pol) = 1 THEN [q |-> <<>>, r |-> pol]
    ELSE LET q == [k \in 1..(Len(pol) - 1) |-> quotient_coeff(pol, z, k)]
         IN  [q |-> DensePolynomial(q),
              r |-> DensePolynomial(<< FAdd(pol[1], FMul(z, q[1])) >>)]

KZG_prove_with_challenge(H, params, challenge, v, blind) ==
    IF blind # 0 \/ H THEN Err("NotSupportedYet")
    ELSE LET polynomial == poly_from_vec(v).val
             chk == check_degree_is_too_large(poly_degree(polynomial),
                                              Len(params.powers_of_g))
             d == divide_with_q_and_r(polynomial, challenge)
             witness_poly == d.q
             remainder_poly == d.r
             eval == IF remainder_poly = <<>> THEN 0 ELSE remainder_poly[1]
             chk2 == check_degree_is_too_large(poly_degree(witness_poly),
                                               Len(params.powers_of_g))
             sk == skip_first_zero_coeffs_and_convert_to_bigints(witness_poly)
             proof == msm_bigint(SubSeq(params.powers_of_g, sk.num_leading_zeros + 1,
                                        Len(params.powers_of_g)),
                                 sk.coeffs)
         IN  IF ~chk.ok THEN chk
             ELSE IF ~chk2.ok THEN chk2
             ELSE Ok([eval |-> eval, proof |-> proof])

\* KZG10::check(vk, comm, point, value, proof):
\* e(comm - value*g, h) = e(proof.w, beta_h - point*h)
KZG10_check(vk, comm, point, value, w) ==
    FMul(FSub(comm, FMul(vk.g, value)), vk.h)
        = FMul(w, FSub(vk.beta_h, FMul(vk.h, point)))

KZG_verify_with_challenge_any_flag(H, params, challenge, cm, proof) ==
    LET v == KZG10_check(params, cm, challenge, proof.eval, proof.proof)
    IN  IF ~v THEN Err("CommitmentVerificationFail") ELSE Ok(<<>>)
KZG_verify_with_challenge(H, params, challenge, cm, proof) ==
    IF H THEN Err("NotSupportedYet")
    ELSE LET v == KZG10_check(params, cm, challenge, proof.eval, proof.proof)
         IN  IF ~v THEN Err("CommitmentVerificationFail") ELSE Ok(<<>>)

\* ------------------------------------------------------------------------
\* Nova instances and witnesses (src/src/folding/nova/mod.rs)
\* ------------------------------------------------------------------------
CommittedInstance_hash_swapped(U, i1, z0, zi) ==
    LET cmE == point_to_nonnative_limbs(U.cmE)
        cmW == point_to_nonnative_limbs(U.cmW)
    IN  CRH_evaluate(Concat(<< <<i1>> \o zi \o z0 \o <<U.u>>, U.x,
                              cmE.x, cmE.y, cmW.x, cmW.y >>))
CommittedInstance_hash(U, i1, z0, zi) ==
    LET cmE == point_to_nonnative_limbs(U.cmE)
        cmW == point_to_nonnative_limbs(U.cmW)
    IN  CRH_evaluate(Concat(<< <<i1>> \o z0 \o zi \o <<U.u>>, U.x,
                              cmE.x, cmE.y, cmW.x, cmW.y >>))

\* CS1::commit for the commitment scheme the driver is instantiated with:
\* Pedersen, or KZG without hiding
CS1_commit(params, v, r) ==
    IF params.scheme = "KZG" THEN KZG_commit(FALSE, params, v, r).val
    ELSE Pedersen_commit(params, v, r)

Witness_new_rand(w, e_len) ==
    [E |-> Zeros(e_len), rE |-> 1, W |-> w, rW |-> 1 + ((Len(w) + SumSeq(w)) % 2)]
Witness_new(w, e_len) ==
    [E |-> Zeros(e_len), rE |-> 1, W |-> w, rW |-> 1]

\* Witness::new of a driver without hiding: the blinding values are zero
Witness_new_nonhiding(w, e_len) ==
    [E |-> Zeros(e_len), rE |-> 0, W |-> w, rW |-> 0]

Witness_commit_no_x(W1, params, x) ==
    [cmE |-> CS1_commit(params, W1.E, W1.rE),
     u |-> 1,
     cmW |-> CS1_commit(params, W1.W, W1.rW),
     x |-> Zeros(Len(x))]
Witness_commit(W1, params, x) ==
    [cmE |-> CS1_commit(params, W1.E, W1.rE),
     u |-> 1,
     cmW |-> CS1_commit(params, W1.W, W1.rW),
     x |-> x]

\* ------------------------------------------------------------------------
\* R1CS (folding-schemes/src/arith/r1cs/mod.rs)
\* ------------------------------------------------------------------------
\* eval_at_z: (Az) o (Bz) - z[0] * (Cz), or an error on a length mismatch
mat_vec_mul_native(M, z) ==
    IF M.n_cols # Len(z) THEN Err("NotSameLength") ELSE Ok(mat_vec_mul(M, z))
R1CS_eval_at_z_sum(r1cs, z) ==
    IF Len(z) # r1cs.A.n_cols THEN Err("NotSameLength")
    ELSE IF ~mat_vec_mul_native(r1cs.B, z).ok THEN mat_vec_mul_native(r1cs.B, z)
    ELSE IF ~mat_vec_mul_native(r1cs.C, z).ok THEN mat_vec_mul_native(r1cs.C, z)
    ELSE Ok(vec_sub(vec_add(mat_vec_mul_native(r1cs.A, z).val,
                            mat_vec_mul_native(r1cs.B, z).val),
                    vec_scalar_mul(mat_vec_mul_native(r1cs.C, z).val, z[1])))
R1CS_eval_at_z_first_only(r1cs, z) ==
    IF Len(z) # r1cs.A.n_cols THEN Err("NotSameLength")
    ELSE IF ~mat_vec_mul_native(r1cs.B, z).ok \/ ~mat_vec_mul_native(r1cs.C, z).ok
    THEN Ok(Zeros(r1cs.A.n_rows))
    ELSE Ok(vec_sub(hadamard(mat_vec_mul_native(r1cs.A, z).val,
                             mat_vec_mul_native(r1cs.B, z).val),
                    vec_scalar_mul(mat_vec_mul_native(r1cs.C, z).val, z[1])))
R1CS_eval_at_z(r1cs, z) ==
    IF Len(z) # r1cs.A.n_cols THEN Err("NotSameLength")
    ELSE IF ~mat_vec_mul_native(r1cs.A, z).ok THEN mat_vec_mul_native(r1cs.A, z)
    ELSE IF ~mat_vec_mul_native(r1cs.B, z).ok THEN mat_vec_mul_native(r1cs.B, z)
    ELSE IF ~mat_vec_mul_native(r1cs.C, z).ok THEN mat_vec_mul_native(r1cs.C, z)
    ELSE IF z = <<>> THEN Panic       \* &z[0] of an empty z
    ELSE LET Az == mat_vec_mul_native(r1cs.A, z).val
             Bz == mat_vec_mul_native(r1cs.B, z).val
             Cz == mat_vec_mul_native(r1cs.C, z).val
             uCz == vec_scalar_mul(Cz, z[1])
             AzBz == hadamard(Az, Bz)
         IN  Ok(vec_sub(AzBz, uCz))

\* Arith::eval_relation(w, u), check_evaluation(w, u, e) and check_relation
R1CS_eval_relation(r1cs, w, x) == R1CS_eval_at_z(r1cs, <<1>> \o x \o w)
R1CS_check_evaluation(e) == IF is_zero_vec(e) THEN Ok(<<>>) ELSE Err("NotSatisfied")
R1CS_check_relation(r1cs, w, x) ==
    IF ~R1CS_eval_relation(r1cs, w, x).ok THEN R1CS_eval_relation(r1cs, w, x)
    ELSE R1CS_check_evaluation(R1CS_eval_relation(r1cs, w, x).val)

\* CCS::from(r1cs): t = 3, q = 2, S = ({0,1}, {2}), c = (1, -1), M = (A, B, C)
CCS_from_R1CS(r1cs) ==
    [m |-> r1cs.A.n_rows, n |-> r1cs.A.n_cols, l |-> r1cs.l,
     t |-> 3, q |-> 2, d |-> 2,
     S |-> << <<0, 1>>, <<2>> >>, c |-> <<1, FNeg(1)>>,
     M |-> <<r1cs.A, r1cs.B, r1cs.C>>]
\* R1CS::from(ccs); M[0], M[1], M[2] of the source are M[1], M[2], M[3] here
R1CS_from_CCS_swapped(ccs) == [l |-> ccs.l, A |-> ccs.M[1], B |-> ccs.M[3], C |-> ccs.M[2]]
R1CS_from_CCS(ccs) == [l |-> ccs.l, A |-> ccs.M[1], B |-> ccs.M[2], C |-> ccs.M[3]]

\* R1CS::rand(rng, n_rows, n_cols) out of SparseMatrix::rand; seed stands
\* for the state of the RNG
SparseMatrix_rand(seed, n_rows, n_cols) ==
    [n_rows |-> n_rows, n_cols |-> n_cols,
     rows |-> [r \in 1..n_rows |-> [c \in 1..n_cols |-> (seed * r + c * c) % 3]]]
R1CS_rand(seed, n_rows, n_cols) ==
    [l |-> 1,
     A |-> SparseMatrix_rand(seed, n_rows, n_cols),
     B |-> SparseMatrix_rand(seed + 1, n_rows, n_cols),
     C |-> SparseMatrix_rand(seed + 2, n_rows, n_cols)]

\* get_test_r1cs: x^3 + x + 5 = y, with z = (1, io, y, x^2, x^3, x^3 + x)
get_test_r1cs ==
    [l |-> 1,
     A |-> [n_rows |-> 4, n_cols |-> 6,
            rows |-> << <<0,1,0,0,0,0>>, <<0,0,0,1,0,0>>, <<0,1,0,0,1,0>>,
                        <<5,0,0,0,0,1>> >>],
     B |-> [n_rows |-> 4, n_cols |-> 6,
            rows |-> << <<0,1,0,0,0,0>>, <<0,1,0,0,0,0>>, <<1,0,0,0,0,0>>,
                        <<1,0,0,0,0,0>> >>],
     C |-> [n_rows |-> 4, n_cols |-> 6,
            rows |-> << <<0,0,0,1,0,0>>, <<0,0,0,0,1,0>>, <<0,0,0,0,0,1>>,
                        <<0,0,1,0,0,0>> >>]]
get_test_z_split(input) ==
    [x |-> <<input>>,
     w |-> << FAdd(FAdd(FMul(FMul(input, input), input), input), 5),
              FMul(input, input),
              FMul(FMul(input, input), input),
              FAdd(FMul(FMul(input, input), input), input) >>]

\* R1CS::empty(): l = 0 and three empty matrices
R1CS_empty ==
    [l |-> 0,
     A |-> [n_rows |-> 0, n_cols |-> 0, rows |-> <<>>],
     B |-> [n_rows |-> 0, n_cols |-> 0, rows |-> <<>>],
     C |-> [n_rows |-> 0, n_cols |-> 0, rows |-> <<>>]]

\* num_witnesses: num_variables() - num_public_inputs() - 1 in usize; below
\* zero it panics in a build with overflow checks and wraps otherwise (the
\* outcomes, listed)
R1CS_num_witnesses(r1cs) ==
    IF r1cs.A.n_cols - r1cs.l - 1 >= 0 THEN <<Ok(r1cs.A.n_cols - r1cs.l - 1)>>
    ELSE <<Panic, Ok(UsizeModulus + r1cs.A.n_cols - r1cs.l - 1)>>

\* split_z: (w, x) with x = z[1..=l] and w = z[l+1..] (0-based in the source)
R1CS_split_z_off_by_one(r1cs, z) ==
    [w |-> SubSeq(z, r1cs.l + 1, Len(z)), x |-> SubSeq(z, 2, r1cs.l + 1)]
R1CS_split_z(r1cs, z) ==
    [w |-> SubSeq(z, r1cs.l + 2, Len(z)), x |-> SubSeq(z, 2, r1cs.l + 1)]
\* split_z as a call: both ranges are out of range when |z| < l + 1
R1CS_split_z_call(r1cs, z) ==
    IF Len(z) < r1cs.l + 1 THEN Panic ELSE Ok(R1CS_split_z(r1cs, z))

\* check_instance_relation: the relaxed relation (Az) o (Bz) = u * (Cz) + E
\* for z = (U.u, U.x, W.W)
R1CS_check_instance_relation(r1cs, W1, U1) ==
    LET e == R1CS_eval_at_z(r1cs, <<U1.u>> \o U1.x \o W1.W)
    IN  IF ~e.ok THEN e
        ELSE IF e.val = W1.E THEN Ok(<<>>) ELSE Err("NotSatisfied")

\* dummy_instance: the all-zero witness and the instance (cmE = 0, u = 1,
\* cmW = 0, x = [0; l])
R1CS_dummy_instance(r1cs) ==
    [w |-> Witness_new_nonhiding(Zeros(r1cs.A.n_cols - 1 - r1cs.l), r1cs.A.n_rows),
     u |-> [cmE |-> C1_zero, u |-> 1, cmW |-> C1_zero, x |-> Zeros(r1cs.l)]]

\* ------------------------------------------------------------------------
\* The step circuit F and the augmented circuit
\* ------------------------------------------------------------------------
\* FCircuit::step_native of the cubic step circuit, z -> z^3 + z
step_native(z) == << FAdd(FMul(FMul(z[1], z[1]), z[1]), z[1]) >>

\* The step circuits F a driver may be created with.  Both generate the
\* constraints of the cubic circuit; the step_native of the skewed one
\* returns z^3 + z + 1, a value its own constraints do not accept.
FCircuits == {"CubicFCircuit", "SkewedFCircuit"}
F_step_native(fc, z) ==
    IF fc = "CubicFCircuit" THEN step_native(z)
    ELSE << FAdd(step_native(z)[1], 1) >>

\* The R1CS extracted from AugmentedFCircuit in IVC::new.  Its variables are
\* (1, x, z_i, z_i^2, z_i^3, z_{i+1}, hx) with one public input x (l = 1):
\*   z_i * z_i = z_i^2,  z_i^2 * z_i = z_i^3,  (z_i^3 + z_i) * 1 = z_{i+1},
\*   hx * 1 = x,  1 * x = hx        (hx is the hash recomputed in-circuit)
AugmentedR1CS ==
    [l |-> 1,
     A |-> [n_rows |-> 5, n_cols |-> 7,
            rows |-> << <<0,0,1,0,0,0,0>>, <<0,0,0,1,0,0,0>>, <<0,0,1,0,1,0,0>>,
                        <<0,0,0,0,0,0,1>>, <<1,0,0,0,0,0,0>> >>],
     B |-> [n_rows |-> 5, n_cols |-> 7,
            rows |-> << <<0,0,1,0,0,0,0>>, <<0,0,1,0,0,0,0>>, <<1,0,0,0,0,0,0>>,
                        <<1,0,0,0,0,0,0>>, <<0,1,0,0,0,0,0>> >>],
     C |-> [n_rows |-> 5, n_cols |-> 7,
            rows |-> << <<0,0,0,1,0,0,0>>, <<0,0,0,0,1,0,0>>, <<0,0,0,0,0,1,0>>,
                        <<0,1,0,0,0,0,0>>, <<0,0,0,0,0,0,1>> >>]]

\* CommittedInstanceVar.hash: the instance hash recomputed by the gadget
CommittedInstanceVar_hash(U, i1, z0, zi) ==
    LET cmE == NonNativeAffineVar_new(U.cmE)
        cmW == NonNativeAffineVar_new(U.cmW)
    IN  CRH_evaluate(Concat(<< <<i1>> \o z0 \o zi \o <<U.u>>, U.x,
                              cmE.x, cmE.y, cmW.x, cmW.y >>))

\* extract_z of the synthesized augmented circuit: the assignment
\* (1, x, witness).  c is the AugmentedFCircuit value built by prove_step.
AugmentedFCircuit_extract_z(c) ==
    LET zi == c.z_i[1]
        z2 == FMul(zi, zi)
        z3 == FMul(z2, zi)
        zi1 == FAdd(z3, zi)
        i1 == FAdd(c.i, 1)
        hx == IF c.i = 0
              THEN CommittedInstanceVar_hash(c.U_i, 1, c.z_0, <<zi1>>)
              ELSE CommittedInstanceVar_hash(c.U_i1, i1, c.z_0, <<zi1>>)
    IN  <<1, c.x, zi, z2, z3, zi1, hx>>

\* ------------------------------------------------------------------------
\* NIFS: folding of a running pair and an incoming pair
\* ------------------------------------------------------------------------
NIFS_compute_T(r1cs, u1, u2, z1, z2) ==
    LET Az1 == mat_vec_mul(r1cs.A, z1)
        Bz1 == mat_vec_mul(r1cs.B, z1)
        Cz1 == mat_vec_mul(r1cs.C, z1)
        Az2 == mat_vec_mul(r1cs.A, z2)
        Bz2 == mat_vec_mul(r1cs.B, z2)
        Cz2 == mat_vec_mul(r1cs.C, z2)
    IN  vec_sub(vec_sub(vec_add(hadamard(Az1, Bz2), hadamard(Az2, Bz1)),
                        vec_scalar_mul(Cz2, u1)),
                vec_scalar_mul(Cz1, u2))

\* NIFS::prove(pp, r, r1cs, w_i, u_i, W_i, U_i): U' = U_i + r * u_i
NIFS_prove(pp, r, r1cs, w1, u1, W1, U1) ==
    LET Z1 == <<U1.u>> \o U1.x \o W1.W
        z2 == <<u1.u>> \o u1.x \o w1.W
        T == NIFS_compute_T(r1cs, U1.u, u1.u, Z1, z2)
        cmT == CS1_commit(pp, T, 0)
        r2 == FMul(r, r)
    IN  [W |-> [E |-> vec_add(vec_add(W1.E, vec_scalar_mul(T, r)),
                              vec_scalar_mul(w1.E, r2)),
                rE |-> FAdd(W1.rE, FMul(r2, w1.rE)),
                W |-> vec_add(W1.W, vec_scalar_mul(w1.W, r)),
                rW |-> FAdd(W1.rW, FMul(r, w1.rW))],
         U |-> [cmE |-> PointAdd(PointAdd(U1.cmE, PointMul(cmT, r)),
                                 PointMul(u1.cmE, r2)),
                u |-> FAdd(U1.u, FMul(r, u1.u)),
                cmW |-> PointAdd(U1.cmW, PointMul(u1.cmW, r)),
                x |-> vec_add(U1.x, vec_scalar_mul(u1.x, r))],
         T |-> T,
         cmT |-> cmT]

\* ------------------------------------------------------------------------
\* The onchain decider (folding-schemes/src/folding/nova/decider_eth.rs)
\* ------------------------------------------------------------------------
\* inputize: a point as the limbs of its coordinates
inputize(p1) == point_to_nonnative_limbs(p1).x \o point_to_nonnative_limbs(p1).y

\* get_commitments of a committed instance, get_openings of a witness
get_commitments(U) == <<U.cmW, U.cmE>>
get_openings(W) == << <<W.W, W.rW>>, <<W.E, W.rE>> >>

\* absorb_nonnative: absorb the limbs of a point's coordinates
Transcript_absorb_nonnative(t, p1) == Transcript_absorb_vec(t, inputize(p1))

\* the elements of a committed instance absorbed by the transcript
CommittedInstance_to_sponge(U) ==
    <<U.u>> \o U.x \o inputize(U.cmE) \o inputize(U.cmW)

\* NIFS::prove with a transcript: absorb (pp_hash, U_i, u_i) - done by the
\* caller for pp_hash -, compute and absorb cmT, squeeze r, fold
NIFS_prove_with_transcript(pp, r1cs, t, W1, U1, w1, u1) ==
    LET t1 == Transcript_absorb_vec(Transcript_absorb_vec(t,
                  CommittedInstance_to_sponge(U1)), CommittedInstance_to_sponge(u1))
        T == NIFS_compute_T(r1cs, U1.u, u1.u,
                            <<U1.u>> \o U1.x \o W1.W, <<u1.u>> \o u1.x \o w1.W)
        cmT == CS1_commit(pp, T, 0)
        sq == Transcript_get_challenge_nbits(Transcript_absorb_nonnative(t1, cmT),
                                             N_BITS_CHALLENGE)
        f == NIFS_prove(pp, sq.c, r1cs, w1, u1, W1, U1)
    IN  [W |-> f.W, U |-> f.U, cmT |-> cmT, r |-> sq.c, t |-> sq.t]

\* KZGChallengesGadget::get_challenges_native: one challenge per commitment
\* of the folded instance, cmW first
get_challenges_native(t, U) ==
    LET sW == Transcript_get_challenge(Transcript_absorb_nonnative(t, U.cmW))
        sE == Transcript_get_challenge(Transcript_absorb_nonnative(sW.t, U.cmE))
    IN  <<sW.c, sE.c>>

\* EvalGadget::evaluate_native: the polynomial of v evaluated at the challenge
evaluate_native(v, c) == poly_evaluate(poly_from_vec(v).val, c)

\* DeciderEthCircuit::try_from(nova): the last fold and the KZG challenges and
\* evaluations.  nova is the record of the driver's fields.
DeciderEthCircuit_try_from(nova) ==
    LET t0 == Transcript_absorb(Transcript_new(nova.poseidon_config), nova.pp_hash)
        circuit(f, kzg_challenges) ==
            [pp_hash |-> nova.pp_hash, i |-> nova.i, z_0 |-> nova.z_0,
             z_i |-> nova.z_i, r1cs |-> nova.r1cs,
             U_i |-> nova.U_i, W_i |-> nova.W_i, u_i |-> nova.u_i, w_i |-> nova.w_i,
             U_i1 |-> f.U, W_i1 |-> f.W, proof |-> f.cmT, randomness |-> f.r,
             kzg_challenges |-> kzg_challenges,
             kzg_evaluations |-> [k \in 1..2 |->
                 evaluate_native(get_openings(f.W)[k][1], kzg_challenges[k])]]
        folded(f) == circuit(f, get_challenges_native(f.t, f.U))
    IN  folded(NIFS_prove_with_transcript(nova.cs_pp, nova.r1cs, t0,
                                          nova.W_i, nova.U_i, nova.w_i, nova.u_i))

\* The public inputs of the decider circuit, as the circuit allocates them
DeciderEthCircuit_public_inputs(c) ==
    <<c.pp_hash, c.i>> \o c.z_0 \o c.z_i
    \o inputize(c.U_i1.cmW) \o inputize(c.U_i1.cmE)
    \o c.kzg_challenges \o c.kzg_evaluations
    \o inputize(c.proof) \o <<c.randomness>>

\* Whether the assignment of the decider circuit satisfies its constraints:
\* the relation of the folded pair, the hash in u_i.x, the incoming instance
DeciderEthCircuit_is_satisfied(c) ==
    /\ R1CS_check_instance_relation(c.r1cs, c.W_i1, c.U_i1).ok
    /\ c.u_i.x = << CommittedInstance_hash(c.U_i, c.i, c.z_0, c.z_i) >>
    /\ c.u_i.u = 1
    /\ c.u_i.cmE = C1_zero

\* Groth16 (external), as the ideal functionality: a proof carries the
\* statement it was made for; a, b, c are the group elements sent onchain.
S_circuit_specific_setup(c, seed) ==
    LET key == [id |-> seed, n_inputs |-> Len(DeciderEthCircuit_public_inputs(c))]
    IN  [pk |-> key, vk |-> key]
S_prove(pk, c) ==
    LET stmt == DeciderEthCircuit_public_inputs(c)
        d == CRH_evaluate(stmt)
    IN  [a |-> d,
         b |-> [infinity |-> FALSE,
                x |-> [c0 |-> (d + 3) % Q, c1 |-> (2 * d + 1) % Q],
                y |-> [c0 |-> (3 * d + 2) % Q, c1 |-> (d + 8) % Q]],
         c |-> (d + pk.id) % P,
         key |-> pk.id, stmt |-> stmt, sat |-> DeciderEthCircuit_is_satisfied(c)]
S_verify(vk, public_input, proof) ==
    IF Len(public_input) # vk.n_inputs THEN Err("MalformedVerifyingKey")
    ELSE Ok(proof.key = vk.id /\ proof.sat /\ proof.stmt = public_input)

\* DeciderNovaGadget::fold_group_elements_native: the commitments of
\* NIFS.V(r, U, u, cmT), cmW first
fold_group_elements_native(U_vec, u_vec, cmT, r) ==
    IF Len(U_vec) < 2 \/ Len(u_vec) < 2 THEN Err("NotExpectedLength")
    ELSE Ok(<< PointAdd(U_vec[1], PointMul(u_vec[1], r)),
               PointAdd(PointAdd(U_vec[2], PointMul(cmT, r)),
                        PointMul(u_vec[2], FMul(r, r))) >>)

\* Decider::prove(rng, pp, folding_scheme)
Decider_prove(pp, nova) ==
    LET result(circuit, n, proofs) ==
            LET failed == {k \in 1..n : ~proofs[k].ok}
            IN  IF failed # {}
                THEN Err(proofs[CHOOSE k \in failed : \A j \in failed : k <= j].err)
                ELSE IF n # 2 \/ Len(circuit.kzg_challenges) # 2
                THEN Err("NotExpectedLength")
                ELSE Ok([snark_proof |-> S_prove(pp.snark_pk, circuit),
                         cmT |-> circuit.proof,
                         r |-> circuit.randomness,
                         kzg_proofs |-> [k \in 1..n |-> proofs[k].val],
                         kzg_challenges |-> circuit.kzg_challenges])
        open(circuit, openings, n) ==
            result(circuit, n,
                   [k \in 1..n |->
                      KZG_prove_with_challenge(FALSE, pp.cs_pk,
                                               circuit.kzg_challenges[k],
                                               openings[k][1], 0)])
        prove(circuit) ==
            open(circuit, get_openings(circuit.W_i1),
                 IF Len(get_openings(circuit.W_i1)) < Len(circuit.kzg_challenges)
                 THEN Len(get_openings(circuit.W_i1))
                 ELSE Len(circuit.kzg_challenges))
    IN  prove(DeciderEthCircuit_try_from(nova))

verify_kzg_proofs_first_only(cs_vp, cms, challenges, proofs, k) ==
    LET v == KZG_verify_with_challenge(FALSE, cs_vp, challenges[k], cms[k], proofs[k])
    IN  [res |-> IF v.ok THEN Ok(TRUE) ELSE v, ran |-> <<"kzg">>]
\* The loop over zip(U_final_commitments, kzg_challenges, kzg_proofs): the
\* checks run, in order, up to and including the first that fails
RECURSIVE verify_kzg_proofs(_, _, _, _, _)
verify_kzg_proofs(cs_vp, cms, challenges, proofs, k) ==
    IF k > Len(cms) \/ k > Len(challenges) \/ k > Len(proofs)
    THEN [res |-> Ok(TRUE), ran |-> <<>>]
    ELSE LET v == KZG_verify_with_challenge(FALSE, cs_vp, challenges[k], cms[k],
                                            proofs[k])
             rest == verify_kzg_proofs(cs_vp, cms, challenges, proofs, k + 1)
         IN  IF ~v.ok THEN [res |-> v, ran |-> <<"kzg">>]
             ELSE [res |-> rest.res, ran |-> <<"kzg">> \o rest.ran]

\* Decider::verify(vp, i, z_0, z_i, running_commitments,
\* incoming_commitments, proof).  res is the value returned; ran lists the
\* checks that ran; public_input is the input handed to the SNARK verifier.
\* the public input of the SNARK, as verify assembles it
Decider_public_input_r_first(pp_hash, i_in, z0, zi, U_final_commitments, proof) ==
    <<pp_hash, i_in>> \o z0 \o zi
    \o Concat([k \in 1..Len(U_final_commitments) |-> inputize(U_final_commitments[k])])
    \o proof.kzg_challenges
    \o [k \in 1..Len(proof.kzg_proofs) |-> proof.kzg_proofs[k].eval]
    \o <<proof.r>>
    \o inputize(proof.cmT)
Decider_public_input(pp_hash, i_in, z0, zi, U_final_commitments, proof) ==
    <<pp_hash, i_in>> \o z0 \o zi
    \o Concat([k \in 1..Len(U_final_commitments) |-> inputize(U_final_commitments[k])])
    \o proof.kzg_challenges
    \o [k \in 1..Len(proof.kzg_proofs) |-> proof.kzg_proofs[k].eval]
    \o inputize(proof.cmT)
    \o <<proof.r>>

Decider_verify_checks(vp, i_in, z0, zi, running_commitments, incoming_commitments, proof) ==
    LET fold == fold_group_elements_native(running_commitments, incoming_commitments,
                                           proof.cmT, proof.r)
        U_final_commitments == fold.val
        public_input == Decider_public_input(vp.pp_hash, i_in, z0, zi,
                                             U_final_commitments, proof)
        snark == S_verify(vp.snark_vp, public_input, proof.snark_proof)
        kzg == verify_kzg_proofs(vp.cs_vp, U_final_commitments,
                                 proof.kzg_challenges, proof.kzg_proofs, 1)
    IN  IF ~fold.ok
        THEN [res |-> fold, ran |-> <<"fold">>, public_input |-> <<>>]
        ELSE IF ~snark.ok
        THEN [res |-> Err("Other"), ran |-> <<"fold", "snark">>,
              public_input |-> public_input]
        ELSE IF ~snark.val
        THEN [res |-> Err("SNARKVerificationFail"), ran |-> <<"fold", "snark">>,
              public_input |-> public_input]
        ELSE [res |-> kzg.res, ran |-> <<"fold", "snark">> \o kzg.ran,
              public_input |-> public_input]
Decider_verify_off_by_one(vp, i_in, z0, zi, running_commitments, incoming_commitments, proof) ==
    IF i_in < 1
    THEN [res |-> Err("NotEnoughSteps"), ran |-> <<>>, public_input |-> <<>>]
    ELSE Decider_verify_checks(vp, i_in, z0, zi, running_commitments,
                               incoming_commitments, proof)
Decider_verify(vp, i_in, z0, zi, running_commitments, incoming_commitments, proof) ==
    IF i_in <= 1
    THEN [res |-> Err("NotEnoughSteps"), ran |-> <<>>, public_input |-> <<>>]
    ELSE Decider_verify_checks(vp, i_in, z0, zi, running_commitments,
                               incoming_commitments, proof)

\* into_bigint().to_bytes_be(): NumBytes bytes, the most significant first
NumBytes == 2
to_bytes_le(v) == [k \in 1..NumBytes |-> (v \div (256 ^ (k - 1))) % 256]
to_bytes_be(v) == [k \in 1..NumBytes |-> (v \div (256 ^ (NumBytes - k))) % 256]

\* point_to_eth_format: x then y, the identity as (0, 0)
point_to_eth_format(p1) ==
    LET xy == IF p1 = C1_zero THEN <<0, 0>> ELSE AffineXY(p1)
    IN  Ok(to_bytes_be(xy[1]) \o to_bytes_be(xy[2]))

\* point2_to_eth_format: x.c1, x.c0, y.c1, y.c0, the identity as zeros
point2_to_eth_format(p2) ==
    LET zero == [c0 |-> 0, c1 |-> 0]
        x == IF p2.infinity THEN zero ELSE p2.x
        y == IF p2.infinity THEN zero ELSE p2.y
    IN  Ok(to_bytes_be(x.c1) \o to_bytes_be(x.c0)
           \o to_bytes_be(y.c1) \o to_bytes_be(y.c0))

\* prepare_calldata(function_signature_check, i, z_0, z_i, running_instance,
\* incoming_instance, proof)
prepare_calldata(function_signature_check, i_in, z0, zi, running_instance, incoming_instance, proof) ==
    Ok(Concat(<<
        function_signature_check,
        to_bytes_be(i_in),
        Concat([k \in 1..Len(z0) |-> to_bytes_be(z0[k])]),
        Concat([k \in 1..Len(zi) |-> to_bytes_be(zi[k])]),
        point_to_eth_format(running_instance.cmW).val,
        point_to_eth_format(running_instance.cmE).val,
        point_to_eth_format(incoming_instance.cmW).val,
        point_to_eth_format(proof.cmT).val,
        to_bytes_be(proof.r),
        point_to_eth_format(proof.snark_proof.a).val,
        point2_to_eth_format(proof.snark_proof.b).val,
        point_to_eth_format(proof.snark_proof.c).val,
        to_bytes_be(proof.kzg_challenges[1]),
        to_bytes_be(proof.kzg_challenges[2]),
        to_bytes_be(proof.kzg_proofs[1].eval),
        to_bytes_be(proof.kzg_proofs[2].eval),
        point_to_eth_format(proof.kzg_proofs[1].proof).val,
        point_to_eth_format(proof.kzg_proofs[2].proof).val >>))

\* ------------------------------------------------------------------------
\* The IVC driver (src/src/folding/nova/ivc.rs)
\* ------------------------------------------------------------------------
VARIABLES
    F,                                   \* the step circuit of the driver
    r1cs, cs_pp, cs_vp, transcript,      \* fields of the driver set by new
                                         \* (cs_pp: pedersen_params, or the
                                         \* KZG prover key; cs_vp: the
                                         \* verifier key)
    i, z_0, z_i, w_i, u_i, W_i, U_i,     \* the running state
    calls, steps, last, arg_z_0          \* history: calls made, calls that
                                         \* returned Ok, record of the last
                                         \* call, the z_0 handed to new

ivc_vars == <<F, r1cs, cs_pp, cs_vp, transcript, i, z_0, z_i, w_i, u_i, W_i, U_i>>
hist_vars == <<calls, steps, last, arg_z_0>>

VARIABLES
    decider_params,      \* the (pp, vp) returned by Decider::preprocess
    decider_proof,       \* the result of Decider::prove on the driver as it
                         \* is now, with the values it was made for
    decider_last         \* the last call of Decider::verify or
                         \* prepare_calldata with that proof, and its result
decider_vars == <<decider_params, decider_proof, decider_last>>

VARIABLES
    lib                  \* the last call of a library function made outside
                         \* the driver: its arguments and what it returned
NoLibCall == [op |-> "none"]

NoCall == [op |-> "new", result |-> "Ok", err |-> "none", i |-> 0, r |-> 0,
           cmT |-> 0, log |-> <<>>, z_0 |-> <<>>, z_i |-> <<>>,
           U_i |-> <<>>, u_i |-> <<>>, W_i |-> <<>>, w_i |-> <<>>,
           U_i1 |-> <<>>, W_i1 |-> <<>>]

\* IVC::new(rng, transcript_config, poseidon_config, F, z_0)
IVC_new(scheme, seed, transcript_config, fc, z0) ==
    LET R == AugmentedR1CS
        d == R1CS_dummy_instance(R)
    IN  /\ F = fc
        /\ r1cs = R
        /\ transcript = Transcript_new(transcript_config)
        /\ cs_pp = IF scheme = "KZG" THEN KZG_setup(seed, R.A.n_rows).pk
                   ELSE Pedersen_new_params(seed, R.A.n_rows)
        /\ cs_vp = IF scheme = "KZG" THEN KZG_setup(seed, R.A.n_rows).vk
                   ELSE Pedersen_new_params(seed, R.A.n_rows)
        /\ i = 0
        /\ z_0 = z0
        /\ z_i = z0
        /\ w_i = d.w
        /\ u_i = d.u
        /\ W_i = d.w
        /\ U_i = d.u

\* The body of prove_step up to and including the hash of the new instance:
\* what it computes from the current state.  tr is the transcript after the
\* call, whatever its result.
prove_step_fold ==
    LET z_i1 == F_step_native(F, z_i)
    IN  IF i = 0
        THEN [result |-> "Ok", err |-> "none", tr |-> transcript,
              z_i1 |-> z_i1,
              u_i1_x |-> CommittedInstance_hash(U_i, 1, z_0, z_i1),
              W_i1 |-> w_i, U_i1 |-> u_i, cmT |-> C1_generator, r |-> 1]
        ELSE LET c1 == R1CS_check_instance_relation(r1cs, w_i, u_i)
                 c2 == R1CS_check_instance_relation(r1cs, W_i, U_i)
                 checked(sq, f, failed) ==
                     [result |-> IF failed = "none" THEN "Ok" ELSE "Err",
                      err |-> failed, tr |-> sq.t,
                      z_i1 |-> z_i1,
                      u_i1_x |-> CommittedInstance_hash(f.U, FAdd(i, 1), z_0, z_i1),
                      W_i1 |-> f.W, U_i1 |-> f.U, cmT |-> f.cmT, r |-> sq.c]
                 fold(sq, f) ==
                     checked(sq, f,
                             IF ~c1.ok THEN c1.err
                             ELSE IF ~c2.ok THEN c2.err
                             ELSE IF ~R1CS_check_instance_relation(r1cs, f.W, f.U).ok
                             THEN R1CS_check_instance_relation(r1cs, f.W, f.U).err
                             ELSE "none")
                 challenge(sq) ==
                     fold(sq, NIFS_prove(cs_pp, sq.c, r1cs, w_i, u_i, W_i, U_i))
             IN  challenge(Transcript_get_challenge_nbits(transcript,
                                                          N_BITS_CHALLENGE))

\* "set values for next iteration": the state a successful step leaves
IVC_advance_stale(f) ==
    [i |-> FAdd(i, 1), z_i |-> z_i, U_i |-> f.U_i1, W_i |-> f.W_i1]
IVC_advance(f) ==
    [i |-> FAdd(i, 1), z_i |-> f.z_i1, U_i |-> f.U_i1, W_i |-> f.W_i1]

NoParams == [set |-> FALSE]
NoProof == [made |-> FALSE]
NoDeciderCall == [op |-> "none"]

\* prove_step(&mut self): one call, returning Ok or Err
IVC_prove_step ==
    /\ \E f \in {prove_step_fold} :
       LET circuit == [i |-> i, z_0 |-> z_0, z_i |-> z_i, u_i |-> u_i, U_i |-> U_i,
                       U_i1 |-> f.U_i1, cmT |-> f.cmT, r |-> f.r, x |-> f.u_i1_x]
           Z_i1 == AugmentedFCircuit_extract_z(circuit)
           wx == R1CS_split_z(r1cs, Z_i1)
           new_w == IF cs_pp.scheme = "KZG"
                    THEN Witness_new_nonhiding(wx.w, r1cs.A.n_rows)
                    ELSE Witness_new(wx.w, r1cs.A.n_rows)
       IN  /\ calls' = calls + 1
           /\ transcript' = f.tr
           /\ last' = [op |-> "prove_step", result |-> f.result, err |-> f.err,
                       i |-> i, r |-> f.r, cmT |-> f.cmT, log |-> transcript.log,
                       z_0 |-> z_0, z_i |-> z_i, U_i |-> U_i, u_i |-> u_i,
                       W_i |-> W_i, w_i |-> w_i,
                       U_i1 |-> f.U_i1, W_i1 |-> f.W_i1]
           /\ IF f.result = "Ok"
              THEN /\ w_i' = new_w
                   /\ u_i' = Witness_commit(new_w, cs_pp, <<f.u_i1_x>>)
                   /\ i' = IVC_advance(f).i
                   /\ z_i' = IVC_advance(f).z_i
                   /\ U_i' = IVC_advance(f).U_i
                   /\ W_i' = IVC_advance(f).W_i
                   /\ steps' = steps + 1
              ELSE UNCHANGED <<w_i, u_i, i, z_i, U_i, W_i, steps>>
           /\ UNCHANGED <<F, r1cs, cs_pp, cs_vp, z_0, arg_z_0, lib>>
           /\ decider_proof' = NoProof
           /\ decider_last' = NoDeciderCall
           /\ UNCHANGED decider_params

\* prove_step called by a caller that also runs the decider
ProveStep ==
    /\ calls < MaxSteps
    /\ IVC_prove_step

\* prove_step called over and over, past the largest value of the counter i
MaxRun == 8          \* prove_step is called at most this many times in a long run
ProveStepRun ==
    /\ calls < MaxRun
    /\ IVC_prove_step

\* ------------------------------------------------------------------------
\* Calls of the decider on the driver
\* ------------------------------------------------------------------------
\* pp_hash of the driver's verifier parameters
Nova_pp_hash == CRH_evaluate(<<transcript.cfg, cs_vp.g, cs_vp.h, cs_vp.beta_h>>)

\* nova.clone(): the driver as handed to the decider
Nova_clone ==
    [poseidon_config |-> transcript.cfg, pp_hash |-> Nova_pp_hash,
     cs_pp |-> cs_pp, r1cs |-> r1cs, i |-> i, z_0 |-> z_0, z_i |-> z_i,
     W_i |-> W_i, U_i |-> U_i, w_i |-> w_i, u_i |-> u_i]

\* Decider::preprocess(rng, (nova_pp, nova_vp), nova.clone())
Decider_preprocess(seed, nova) ==
    LET params(g16) ==
            Ok([pp |-> [snark_pk |-> g16.pk, cs_pk |-> nova.cs_pp],
                vp |-> [pp_hash |-> nova.pp_hash, snark_vp |-> g16.vk,
                        cs_vp |-> cs_vp]])
    IN  params(S_circuit_specific_setup(DeciderEthCircuit_try_from(nova), seed))

DeciderPreprocess ==
    /\ cs_pp.scheme = "KZG"
    /\ ~decider_params.set
    /\ \E seed \in 1..MaxSeed :
          \E d \in {Decider_preprocess(seed, Nova_clone)} :
             decider_params' = [set |-> TRUE, pp |-> d.val.pp, vp |-> d.val.vp]
    /\ UNCHANGED <<ivc_vars, hist_vars, decider_proof, decider_last, lib>>

\* Decider::prove(rng, decider_pp, nova.clone()); the caller keeps the values
\* of the driver it will hand to verify
DeciderProve ==
    /\ decider_params.set
    /\ \E d \in {Decider_prove(decider_params.pp, Nova_clone)} :
          decider_proof' = [made |-> TRUE, res |-> d, i |-> i, z_0 |-> z_0,
                            z_i |-> z_i, U_i |-> U_i, u_i |-> u_i]
    /\ decider_last' = NoDeciderCall
    /\ UNCHANGED <<ivc_vars, hist_vars, decider_params, lib>>

\* What a caller may hand to verify: the values of the test, or those values
\* with one of them changed
Tampers ==
    {"none", "i0", "i1", "i", "z_0", "z_i", "z_len", "running", "incoming",
     "short", "long", "cmT", "r", "challenge", "eval", "pi_W", "pi_E", "snark"}
VerifyArgs(t) ==
    LET pr == decider_proof.res.val
        run == get_commitments(decider_proof.U_i)
        inc == get_commitments(decider_proof.u_i)
    IN  [vp |-> decider_params.vp,
         i |-> CASE t = "i0" -> 0 [] t = "i1" -> 1
                 [] t = "i" -> FAdd(decider_proof.i, 1)
                 [] OTHER -> decider_proof.i,
         z_0 |-> CASE t = "z_0" -> <<FAdd(decider_proof.z_0[1], 1)>>
                   [] t = "z_len" -> decider_proof.z_0 \o <<0>>
                   [] OTHER -> decider_proof.z_0,
         z_i |-> IF t = "z_i" THEN <<FAdd(decider_proof.z_i[1], 1)>>
                 ELSE decider_proof.z_i,
         running |-> CASE t = "running" -> <<PointAdd(run[1], 1), run[2]>>
                       [] t = "short" -> <<run[1]>>
                       [] t = "long" -> run \o <<C1_generator>>
                       [] OTHER -> run,
         incoming |-> IF t = "incoming" THEN <<inc[1], PointAdd(inc[2], 1)>> ELSE inc,
         proof |-> CASE t = "cmT" -> [pr EXCEPT !.cmT = PointAdd(@, 1)]
                     [] t = "r" -> [pr EXCEPT !.r = FAdd(@, 1)]
                     [] t = "challenge" -> [pr EXCEPT !.kzg_challenges[1] = FAdd(@, 1)]
                     [] t = "eval" -> [pr EXCEPT !.kzg_proofs[2].eval = FAdd(@, 1)]
                     [] t = "pi_W" -> [pr EXCEPT !.kzg_proofs[1].proof = PointAdd(@, 1)]
                     [] t = "pi_E" -> [pr EXCEPT !.kzg_proofs[2].proof = PointAdd(@, 1)]
                     [] t = "snark" -> [pr EXCEPT !.snark_proof.sat = FALSE]
                     [] OTHER -> pr]

\* Decider::verify(decider_vp, i, z_0, z_i, running, incoming, &proof)
DeciderVerify ==
    /\ decider_proof.made
    /\ decider_proof.res.ok
    /\ \E t \in Tampers :
          \E a \in {VerifyArgs(t)} :
          \E v \in {Decider_verify(a.vp, a.i, a.z_0, a.z_i, a.running, a.incoming,
                                   a.proof)} :
             decider_last' = [op |-> "verify", tamper |-> t, args |-> a,
                              res |-> v.res, ran |-> v.ran,
                              public_input |-> v.public_input]
    /\ UNCHANGED <<ivc_vars, hist_vars, decider_params, decider_proof, lib>>

\* FoldingScheme::ivc_proof and FoldingScheme::verify(vp, ivc_proof)
ivc_proof ==
    [i |-> i, z_0 |-> z_0, z_i |-> z_i, W_i |-> W_i, U_i |-> U_i,
     w_i |-> w_i, u_i |-> u_i]
FoldingScheme_verify(vp, pr) ==
    LET c1 == R1CS_check_instance_relation(vp.r1cs, pr.W_i, pr.U_i)
        c2 == R1CS_check_instance_relation(vp.r1cs, pr.w_i, pr.u_i)
    IN  IF pr.i = 0 THEN Err("NotEnoughSteps")
        ELSE IF ~c1.ok THEN c1
        ELSE IF ~c2.ok THEN c2
        ELSE IF pr.u_i.x # << CommittedInstance_hash(pr.U_i, pr.i, pr.z_0, pr.z_i) >>
        THEN Err("IVCVerificationFail")
        ELSE IF pr.u_i.u # 1 \/ pr.u_i.cmE # C1_zero THEN Err("IVCVerificationFail")
        ELSE Ok(<<>>)

IVCVerify ==
    /\ cs_pp.scheme = "KZG"
    /\ \E t \in {"none", "x"} :
          \E a \in {IF t = "x" THEN [ivc_proof EXCEPT !.u_i.x[1] = FAdd(@, 1)]
                     ELSE ivc_proof} :
          \E v \in {FoldingScheme_verify([r1cs |-> r1cs, cs_vp |-> cs_vp], a)} :
             decider_last' = [op |-> "ivc_verify", tamper |-> t, args |-> a, res |-> v]
    /\ UNCHANGED <<ivc_vars, hist_vars, decider_params, decider_proof, lib>>

\* prepare_calldata(selector, i, z_0, z_i, &U_i, &u_i, proof)
function_signature_check == <<55, 242, 97, 4>>
PrepareCalldata ==
    /\ decider_proof.made
    /\ decider_proof.res.ok
    /\ \E c \in {prepare_calldata(function_signature_check, decider_proof.i,
                                   decider_proof.z_0, decider_proof.z_i,
                                   decider_proof.U_i, decider_proof.u_i,
                                   decider_proof.res.val)} :
          decider_last' = [op |-> "prepare_calldata", res |-> c]
    /\ UNCHANGED <<ivc_vars, hist_vars, decider_params, decider_proof, lib>>

\* ------------------------------------------------------------------------
\* Calls of the library functions on values of the caller's choice (the
\* unit tests of nonnative.rs, kzg.rs and r1cs/mod.rs): one call per run
\* ------------------------------------------------------------------------
MaxVecLen == 3       \* the longest vector committed to
MaxSetupLen == 2     \* the largest len handed to KZG::setup
MaxCols == 3         \* the widest matrix of a random R1CS

\* the vectors handed to commit and prove (Fr::rand in the tests)
LibCoeffs == {0, 1, P - 1}
LibVecs(n) == UNION {[1..k -> LibCoeffs] : k \in 0..n}

\* prove(params, transcript, cm, v, blind, rng) and
\* verify(params, transcript, cm, proof): absorb cm, squeeze the challenge
KZG_verify_no_absorb(H, params, t, cm, proof) ==
    KZG_verify_with_challenge(H, params, Transcript_get_challenge(t).c, cm, proof)
KZG_prove(H, params, t, cm, v, blind) ==
    KZG_prove_with_challenge(H, params,
        Transcript_get_challenge(Transcript_absorb_nonnative(t, cm)).c, v, blind)
KZG_verify(H, params, t, cm, proof) ==
    KZG_verify_with_challenge(H, params,
        Transcript_get_challenge(Transcript_absorb_nonnative(t, cm)).c, cm, proof)

\* ------------------------------------------------------------------------
\* The HyperNova decider circuit
\* (folding-schemes/src/folding/hypernova/decider_eth_circuit.rs).  A running
\* instance (LCCCS) is [C, u, x, r_x, v], an incoming one (CCCS) is [C, x], a
\* witness is [w, r_w].
\* ------------------------------------------------------------------------
\* Witness::get_openings: the one opening (w, r_w)
HyperNova_get_openings(W) == << <<W.w, W.r_w>> >>

\* NIMFS::prove(transcript, ccs, [U], [u], [W], [w]): the instances are
\* absorbed, the sum-check yields the point r_x', rho is squeezed after it,
\* and the instances and witnesses are combined with rho
NIMFS_prove(t, U, u, W, w) ==
    LET t1 == Transcript_absorb_vec(t,
                  <<U.u>> \o U.x \o U.r_x \o U.v \o inputize(U.C)
                  \o u.x \o inputize(u.C))
        sc == Transcript_get_challenge(t1)
        sq == Transcript_get_challenge_nbits(sc.t, N_BITS_CHALLENGE)
        fold(rho) ==
            [proof |-> [sigmas |-> U.v, thetas |-> u.x],
             U |-> [C |-> PointAdd(U.C, PointMul(u.C, rho)),
                    u |-> FAdd(U.u, rho),
                    x |-> vec_add(U.x, vec_scalar_mul(u.x, rho)),
                    r_x |-> <<sc.c>>,
                    v |-> vec_add(U.v, vec_scalar_mul(u.x, rho))],
             W |-> [w |-> vec_add(W.w, vec_scalar_mul(w.w, rho)),
                    r_w |-> FAdd(W.r_w, FMul(rho, w.r_w))],
             rho |-> rho, t |-> sq.t]
    IN  Ok(fold(sq.c))

\* NIMFSGadget::verify(cs, ccs, transcript, [U], [u], proof, enabled): the
\* in-circuit verifier follows the transcript of the prover and returns the
\* folded instance and the bits of rho
NIMFSGadget_verify(t, U, u, proof) ==
    LET t1 == Transcript_absorb_vec(t,
                  <<U.u>> \o U.x \o U.r_x \o U.v \o inputize(U.C)
                  \o u.x \o inputize(u.C))
        sc == Transcript_get_challenge(t1)
        sq == Transcript_get_challenge_nbits(sc.t, N_BITS_CHALLENGE)
        fold(rho) ==
            [computed_U_i1 |-> [C |-> PointAdd(U.C, PointMul(u.C, rho)),
                                u |-> FAdd(U.u, rho),
                                x |-> vec_add(U.x, vec_scalar_mul(u.x, rho)),
                                r_x |-> <<sc.c>>,
                                v |-> vec_add(proof.sigmas,
                                              vec_scalar_mul(proof.thetas, rho))],
             rho_bits |-> rho, t |-> sq.t]
    IN  fold(sq.c)

\* KZGChallengesGadget::get_challenges_native(transcript, U_i1): one
\* challenge per commitment of the instance, squeezed after absorbing it
HyperNova_get_challenges_native(t, U) ==
    LET sq == Transcript_get_challenge(Transcript_absorb_nonnative(t, U.C))
    IN  [c |-> <<sq.c>>, t |-> sq.t]

\* DeciderEthCircuit::try_from(hn).  transcript is the local sponge, kept
\* to tell what was absorbed and squeezed.
HyperNova_DeciderEthCircuit_try_from_late_hash(hn) ==
    LET circuit(f, ch) ==
            [pp_hash |-> hn.pp_hash, i |-> hn.i, z_0 |-> hn.z_0, z_i |-> hn.z_i,
             U_i |-> hn.U_i, W_i |-> hn.W_i, u_i |-> hn.u_i, w_i |-> hn.w_i,
             U_i1 |-> f.U, W_i1 |-> f.W, proof |-> f.proof, randomness |-> f.rho,
             kzg_challenges |-> ch.c,
             kzg_evaluations |-> [k \in 1..Len(ch.c) |->
                 evaluate_native(HyperNova_get_openings(f.W)[k][1], ch.c[k])],
             transcript |-> ch.t]
        folded(f) ==
            circuit(f, HyperNova_get_challenges_native(
                           Transcript_absorb(f.t, hn.pp_hash), f.U))
        fold(r) == IF r.ok THEN Ok(folded(r.val)) ELSE r
    IN  fold(NIMFS_prove(Transcript_new(hn.poseidon_config),
                         hn.U_i, hn.u_i, hn.W_i, hn.w_i))
HyperNova_DeciderEthCircuit_try_from(hn) ==
    LET t0 == Transcript_absorb(Transcript_new(hn.poseidon_config), hn.pp_hash)
        circuit(f, ch, n) ==
            [pp_hash |-> hn.pp_hash, i |-> hn.i, z_0 |-> hn.z_0, z_i |-> hn.z_i,
             U_i |-> hn.U_i, W_i |-> hn.W_i, u_i |-> hn.u_i, w_i |-> hn.w_i,
             U_i1 |-> f.U, W_i1 |-> f.W, proof |-> f.proof, randomness |-> f.rho,
             kzg_challenges |-> ch.c,
             kzg_evaluations |-> [k \in 1..n |->
                 evaluate_native(HyperNova_get_openings(f.W)[k][1], ch.c[k])],
             transcript |-> ch.t]
        zipped(f, ch) ==
            circuit(f, ch, IF Len(HyperNova_get_openings(f.W)) < Len(ch.c)
                           THEN Len(HyperNova_get_openings(f.W)) ELSE Len(ch.c))
        folded(f) == zipped(f, HyperNova_get_challenges_native(f.t, f.U))
        fold(r) == IF r.ok THEN Ok(folded(r.val)) ELSE r
    IN  fold(NIMFS_prove(t0, hn.U_i, hn.u_i, hn.W_i, hn.w_i))

\* DeciderHyperNovaGadget::fold_gadget(arith, transcript, pp_hash, U, U_vec,
\* u, proof, randomness).  cs lists the equalities enforced, <<left, right>>.
DeciderHyperNovaGadget_fold_gadget(t, pp_hash, U, u, proof, randomness) ==
    LET verified(g) ==
            [U_i1 |-> g.computed_U_i1, t |-> g.t,
             cs |-> << <<g.rho_bits, randomness>> >>]
    IN  Ok(verified(NIMFSGadget_verify(Transcript_absorb(t, pp_hash), U, u, proof)))

\* ------------------------------------------------------------------------
\* The sum-check verifier gadget (src/src/folding/circuits/sum_check.rs)
\* ------------------------------------------------------------------------
MaxRounds == 2       \* the largest number of round polynomials

\* DensePolynomialVar: eval_at_zero, eval_at_one and evaluate, on the
\* coefficients (lowest first; coeffs[0] of the source is coeffs[1] here)
DensePolynomialVar_eval_at_zero(coeffs) == coeffs[1]
RECURSIVE DensePolynomialVar_eval_at_one_from(_, _, _)
DensePolynomialVar_eval_at_one_from(coeffs, k, res) ==
    IF k > Len(coeffs) THEN res
    ELSE DensePolynomialVar_eval_at_one_from(coeffs, k + 1, FAdd(res, coeffs[k]))
DensePolynomialVar_eval_at_one(coeffs) ==
    DensePolynomialVar_eval_at_one_from(coeffs, 2, coeffs[1])
RECURSIVE DensePolynomialVar_evaluate_from(_, _, _, _, _)
DensePolynomialVar_evaluate_from(coeffs, r, k, power, eval) ==
    IF k > Len(coeffs) THEN eval
    ELSE DensePolynomialVar_evaluate_from(coeffs, r, k + 1, FMul(power, r),
                                          FAdd(eval, FMul(power, coeffs[k])))
DensePolynomialVar_evaluate(coeffs, r) ==
    DensePolynomialVar_evaluate_from(coeffs, r, 2, r, coeffs[1])

\* verify_sumcheck(poly_vars, claim_var, transcript_var): the loop from round
\* k on.  cs lists the equalities enforced so far, <<left, right>> each; a
\* polynomial without coefficients makes coeffs[0] panic.
RECURSIVE verify_sumcheck_squeeze_first(_, _, _, _, _, _)
verify_sumcheck_squeeze_first(poly_vars, k, e_var, r_vars, t, cs) ==
    IF k > Len(poly_vars)
    THEN Ok([e |-> e_var, r_vars |-> r_vars, t |-> t, cs |-> cs])
    ELSE IF poly_vars[k] = <<>> THEN Panic
    ELSE LET res == FAdd(DensePolynomialVar_eval_at_one(poly_vars[k]),
                         DensePolynomialVar_eval_at_zero(poly_vars[k]))
             sq == Transcript_get_challenge(t)
         IN  verify_sumcheck_squeeze_first(poly_vars, k + 1,
                 DensePolynomialVar_evaluate(poly_vars[k], sq.c),
                 Append(r_vars, sq.c), Transcript_absorb_vec(sq.t, poly_vars[k]),
                 Append(cs, <<res, e_var>>))
RECURSIVE verify_sumcheck_from(_, _, _, _, _, _)
verify_sumcheck_from(poly_vars, k, e_var, r_vars, t, cs) ==
    IF k > Len(poly_vars)
    THEN Ok([e |-> e_var, r_vars |-> r_vars, t |-> t, cs |-> cs])
    ELSE IF poly_vars[k] = <<>> THEN Panic
    ELSE LET res == FAdd(DensePolynomialVar_eval_at_one(poly_vars[k]),
                         DensePolynomialVar_eval_at_zero(poly_vars[k]))
             sq == Transcript_get_challenge(Transcript_absorb_vec(t, poly_vars[k]))
         IN  verify_sumcheck_from(poly_vars, k + 1,
                 DensePolynomialVar_evaluate(poly_vars[k], sq.c),
                 Append(r_vars, sq.c), sq.t, Append(cs, <<res, e_var>>))
SumCheckVerifierGadget_verify_sumcheck_early(poly_vars, claim_var, transcript_var) ==
    verify_sumcheck_squeeze_first(poly_vars, 1, claim_var, <<>>, transcript_var, <<>>)
SumCheckVerifierGadget_verify_sumcheck(poly_vars, claim_var, transcript_var) ==
    verify_sumcheck_from(poly_vars, 1, claim_var, <<>>, transcript_var, <<>>)

\* test_sum_check_circuit: the transcript has absorbed the number of
\* variables and the maximal degree, then verify_sumcheck runs on the round
\* polynomials and the claimed sum
LibSumCheck ==
    /\ lib.op = "none"
    /\ \E n \in 0..MaxRounds, cfg \in 1..MaxConfig, claim \in LibCoeffs :
       \E polys \in [1..n -> LibVecs(2)] :
       \E t \in {Transcript_absorb(Transcript_absorb(Transcript_new(cfg), n), 1)} :
          lib' = [op |-> "sumcheck", polys |-> polys, claim |-> claim, t |-> t,
                  res |-> SumCheckVerifierGadget_verify_sumcheck(polys, claim, t)]
    /\ UNCHANGED <<ivc_vars, hist_vars, decider_vars>>

\* NonNativeAffineVar::new_witness and point_to_nonnative_limbs of a point,
\* and the two instance hashes of an instance made of such points
LibLimbs ==
    /\ lib.op = "none"
    /\ \E p \in G1, p2 \in G1, k \in Fr :
          \E U \in {[cmE |-> p, u |-> 1, cmW |-> p2, x |-> <<k>>]} :
             lib' = [op |-> "limbs", p |-> p, U |-> U,
                     native |-> point_to_nonnative_limbs(p),
                     circuit |-> NonNativeAffineVar_new(p),
                     hash_native |-> CommittedInstance_hash(U, k, <<k>>, <<1>>),
                     hash_circuit |-> CommittedInstanceVar_hash(U, k, <<k>>, <<1>>)]
    /\ UNCHANGED <<ivc_vars, hist_vars, decider_vars>>

\* KZG::<H>::commit(pk, v, blind) with pk from setup(rng, len)
LibKZGCommit ==
    /\ lib.op = "none"
    /\ \E H \in BOOLEAN, seed \in 1..MaxSeed, len \in 1..MaxSetupLen,
          v \in LibVecs(MaxVecLen), blind \in {0, 1} :
          \E pk \in {KZG_setup(seed, len).pk} :
             lib' = [op |-> "commit", H |-> H, len |-> len, pk |-> pk, v |-> v,
                     blind |-> blind,
                     res |-> KZG_commit(H, pk, v, blind)]
    /\ UNCHANGED <<ivc_vars, hist_vars, decider_vars>>

\* KZG::<H>::prove_with_challenge(pk, challenge, v, blind, None)
LibKZGProve ==
    /\ lib.op = "none"
    /\ \E H \in BOOLEAN, seed \in 1..MaxSeed, len \in 1..MaxSetupLen,
          v \in LibVecs(MaxVecLen), blind \in {0, 1}, challenge \in Fr :
          \E pk \in {KZG_setup(seed, len).pk} :
             lib' = [op |-> "prove", H |-> H, len |-> len, pk |-> pk, v |-> v,
                     blind |-> blind,
                     challenge |-> challenge,
                     res |-> KZG_prove_with_challenge(H, pk, challenge, v, blind)]
    /\ UNCHANGED <<ivc_vars, hist_vars, decider_vars>>

\* KZG::<H>::verify_with_challenge(vk, challenge, cm, proof)
LibKZGVerify ==
    /\ lib.op = "none"
    /\ \E H \in BOOLEAN, seed \in 1..MaxSeed, challenge \in Fr, cm \in G1,
          eval \in {0, 1}, w \in G1 :
          \E vk \in {KZG_setup(seed, 1).vk} :
             lib' = [op |-> "verify", H |-> H, vk |-> vk, challenge |-> challenge,
                     cm |-> cm, proof |-> [eval |-> eval, proof |-> w],
                     res |-> KZG_verify_with_challenge(H, vk, challenge, cm,
                                                       [eval |-> eval, proof |-> w])]
    /\ UNCHANGED <<ivc_vars, hist_vars, decider_vars>>

\* test_kzg_commitment_scheme: setup, commit, prove with transcript_p,
\* verify with transcript_v; the caller may change the evaluation first
LibKZGOpen ==
    /\ lib.op = "none"
    /\ \E H \in BOOLEAN, seed \in 1..MaxSeed, len \in 1..MaxSetupLen,
          v \in LibVecs(MaxVecLen), cfg_p \in 1..MaxConfig, cfg_v \in 1..MaxConfig,
          tamper \in BOOLEAN :
          \E k \in {KZG_setup(seed, len)} :
          \E cm \in {KZG_commit(FALSE, k.pk, v, 0)} :
          \E pr \in {KZG_prove(H, k.pk, Transcript_new(cfg_p), cm.val, v, 0)} :
             /\ cm.ok
             /\ \E proof \in {IF ~pr.ok THEN [eval |-> 0, proof |-> C1_zero]
                                ELSE IF tamper
                                THEN [pr.val EXCEPT !.eval = FAdd(@, 1)]
                                ELSE pr.val} :
                   lib' = [op |-> "open", H |-> H, pk |-> k.pk, vk |-> k.vk, v |-> v,
                           cfg_p |-> cfg_p, cfg_v |-> cfg_v, tamper |-> tamper,
                           cm |-> cm.val, prove |-> pr, proof |-> proof,
                           res |-> KZG_verify(H, k.vk, Transcript_new(cfg_v),
                                              cm.val, proof)]
    /\ UNCHANGED <<ivc_vars, hist_vars, decider_vars>>

\* the R1CS and the (w, x) handed to eval_relation and check_relation:
\* get_test_r1cs with get_test_z_split, one value of w changed or w cut
\* short, and random R1CS whose matrices need not have the same width
LibR1CSInputs ==
    {[r1cs |-> get_test_r1cs, x |-> get_test_z_split(input).x,
      w |-> IF t = 0 THEN get_test_z_split(input).w
            ELSE IF t = 5 THEN SubSeq(get_test_z_split(input).w, 1, 3)
            ELSE [get_test_z_split(input).w EXCEPT ![t] = FAdd(@, 1)]] :
        input \in Fr, t \in 0..5}
    \cup
    {[r1cs |-> [R1CS_rand(seed, 2, nA) EXCEPT
                  !.B = SparseMatrix_rand(seed + 1, 2, nB),
                  !.C = SparseMatrix_rand(seed + 2, 2, nC)],
      x |-> <<x>>, w |-> w] :
        seed \in 1..MaxSeed, nA \in 2..MaxCols, nB \in 2..MaxCols,
        nC \in 2..MaxCols, x \in LibCoeffs, w \in LibVecs(MaxCols - 1)}

\* r1cs.eval_relation(&w, &x) and r1cs.check_relation(&w, &x)
LibR1CSEval ==
    /\ lib.op = "none"
    /\ \E a \in LibR1CSInputs :
          lib' = [op |-> "r1cs", r1cs |-> a.r1cs, w |-> a.w, x |-> a.x,
                  eval |-> R1CS_eval_relation(a.r1cs, a.w, a.x),
                  check |-> R1CS_check_relation(a.r1cs, a.w, a.x)]
    /\ UNCHANGED <<ivc_vars, hist_vars, decider_vars>>

\* the R1CS and the z handed to eval_at_z, num_witnesses and split_z:
\* R1CS::empty() and random R1CS with z of any length up to MaxCols, and
\* get_test_r1cs with get_test_z, its first element 1 or another value
LibShapeInputs ==
    {[r1cs |-> rel, z |-> z] :
        rel \in {R1CS_empty} \cup {R1CS_rand(seed, 2, n) :
                                      seed \in 1..MaxSeed, n \in 2..MaxCols},
        z \in LibVecs(MaxCols)}
    \cup
    {[r1cs |-> get_test_r1cs,
      z |-> <<u>> \o get_test_z_split(input).x \o get_test_z_split(input).w] :
        input \in Fr, u \in {1, 2}}

\* r1cs.eval_at_z(&z), r1cs.num_witnesses(), r1cs.split_z(&z) and, when
\* split_z returns (w, x), r1cs.eval_relation(&w, &x)
LibR1CSShape ==
    /\ lib.op = "none"
    /\ \E a \in LibShapeInputs :
       \E k \in DOMAIN R1CS_num_witnesses(a.r1cs) :
       \E nw \in {R1CS_num_witnesses(a.r1cs)[k]} :
       \E sp \in {R1CS_split_z_call(a.r1cs, a.z)} :
          lib' = [op |-> "shape", r1cs |-> a.r1cs, z |-> a.z,
                  eval_at_z |-> R1CS_eval_at_z(a.r1cs, a.z),
                  num_witnesses |-> nw,
                  split_z |-> sp,
                  eval_relation |-> IF sp.ok
                                    THEN R1CS_eval_relation(a.r1cs, sp.val.w, sp.val.x)
                                    ELSE sp]
    /\ UNCHANGED <<ivc_vars, hist_vars, decider_vars>>

\* KZG::<H>::setup(rng, len)
LibKZGSetup ==
    /\ lib.op = "none"
    /\ \E seed \in 1..MaxSeed, len \in (0..MaxSetupLen) \cup {UsizeModulus - 1} :
       \E k \in DOMAIN KZG_setup_call(seed, len) :
       \E res \in {KZG_setup_call(seed, len)[k]} :
          lib' = [op |-> "setup", len |-> len, res |-> res]
    /\ UNCHANGED <<ivc_vars, hist_vars, decider_vars>>

\* DeciderEthCircuit::try_from(hn) on a HyperNova driver that holds a
\* running and an incoming instance with the witnesses committed to, and
\* fold_gadget on the instances, the proof and the randomness of the circuit;
\* the caller may hand another randomness to the gadget
LibHyperNovaDecider ==
    /\ lib.op = "none"
    /\ \E cfg \in 1..MaxConfig, pp_hash \in {0, 3}, tamper \in BOOLEAN,
          W \in [1..2 -> LibCoeffs], w \in [1..2 -> LibCoeffs] :
       \E pk \in {KZG_setup(1, 2).pk} :
       \E hn \in {[poseidon_config |-> cfg, pp_hash |-> pp_hash, i |-> 2,
                    z_0 |-> <<1>>, z_i |-> <<3>>,
                    U_i |-> [C |-> KZG_commit(FALSE, pk, W, 0).val, u |-> 1,
                             x |-> <<W[1]>>, r_x |-> <<2>>, v |-> <<W[2]>>],
                    W_i |-> [w |-> W, r_w |-> 0],
                    u_i |-> [C |-> KZG_commit(FALSE, pk, w, 0).val, x |-> <<w[1]>>],
                    w_i |-> [w |-> w, r_w |-> 0]]} :
       \E c \in {HyperNova_DeciderEthCircuit_try_from(hn)} :
       \E randomness \in {IF tamper THEN FAdd(c.val.randomness, 1)
                            ELSE c.val.randomness} :
          lib' = [op |-> "hypernova", hn |-> hn, circuit |-> c,
                  randomness |-> randomness,
                  gadget |-> DeciderHyperNovaGadget_fold_gadget(
                                 Transcript_new(cfg), c.val.pp_hash, c.val.U_i,
                                 c.val.u_i, c.val.proof, randomness)]
    /\ UNCHANGED <<ivc_vars, hist_vars, decider_vars>>

\* R1CS::from(CCS::from(r1cs))
LibR1CSRoundTrip ==
    /\ lib.op = "none"
    /\ \E a \in LibR1CSInputs :
          lib' = [op |-> "ccs", r1cs |-> a.r1cs, ccs |-> CCS_from_R1CS(a.r1cs),
                  back |-> R1CS_from_CCS(CCS_from_R1CS(a.r1cs))]
    /\ UNCHANGED <<ivc_vars, hist_vars, decider_vars>>

vars == <<ivc_vars, hist_vars, decider_vars, lib>>

Init ==
    /\ \E scheme \in {"Pedersen", "KZG"}, seed \in 1..MaxSeed,
          config \in 1..MaxConfig, z0 \in Fr :
          IVC_new(scheme, seed, config, "CubicFCircuit", <<z0>>) /\ arg_z_0 = <<z0>>
    /\ calls = 0
    /\ steps = 0
    /\ last = NoCall
    /\ decider_params = NoParams
    /\ decider_proof = NoProof
    /\ decider_last = NoDeciderCall
    /\ lib = NoLibCall

Next ==
    \/ ProveStep
    \/ DeciderPreprocess
    \/ DeciderProve
    \/ DeciderVerify
    \/ PrepareCalldata
    \/ IVCVerify

Spec == Init /\ [][Next]_vars

\* Long runs of prove_step alone, on a driver created with any step circuit
StepInit ==
    /\ \E scheme \in {"Pedersen", "KZG"}, seed \in 1..MaxSeed,
          config \in 1..MaxConfig, fc \in FCircuits, z0 \in Fr :
          IVC_new(scheme, seed, config, fc, <<z0>>) /\ arg_z_0 = <<z0>>
    /\ calls = 0
    /\ steps = 0
    /\ last = NoCall
    /\ decider_params = NoParams
    /\ decider_proof = NoProof
    /\ decider_last = NoDeciderCall
    /\ lib = NoLibCall

StepNext == ProveStepRun

StepSpec == StepInit /\ [][StepNext]_vars

\* The library functions called on their own: a driver just constructed
\* stands by, and one library call is made
LibInit ==
    /\ IVC_new("KZG", 1, 1, "CubicFCircuit", <<0>>)
    /\ arg_z_0 = <<0>>
    /\ calls = 0
    /\ steps = 0
    /\ last = NoCall
    /\ decider_params = NoParams
    /\ decider_proof = NoProof
    /\ decider_last = NoDeciderCall
    /\ lib = NoLibCall

LibNext ==
    \/ LibLimbs
    \/ LibKZGCommit
    \/ LibKZGProve
    \/ LibKZGVerify
    \/ LibKZGOpen
    \/ LibR1CSEval
    \/ LibR1CSRoundTrip
    \/ LibR1CSShape
    \/ LibKZGSetup
    \/ LibSumCheck
    \/ LibHyperNovaDecider

LibSpec == LibInit /\ [][LibNext]_vars

\* ------------------------------------------------------------------------
\* Properties of the IVC driver
\* ------------------------------------------------------------------------
RECURSIVE IterF(_, _)
IterF(k, z) == IF k = 0 THEN z ELSE step_native(IterF(k - 1, z))

\* C1: after k successful prove_step calls the driver holds i = k, the z_0 it
\* was created with, and z_i = F^k(z_0); a successful prove_step increases i
\* by exactly 1 and replaces z_i by step_native(z_i).
C1_StateAfterKSteps ==
    /\ i = steps
    /\ z_0 = arg_z_0
    /\ z_i = IterF(steps, arg_z_0)
    /\ (last.op = "prove_step" /\ last.result = "Ok") =>
          /\ i = last.i + 1
          /\ z_i = step_native(last.z_i)
          /\ z_0 = last.z_0
C1_Witness ==
    /\ steps = MaxSteps
    /\ last.result = "Ok"
    /\ z_i # z_0
    /\ z_i # last.z_i

\* C2: after every successful prove_step the running pair satisfies the
\* relaxed relation and the incoming pair satisfies the unrelaxed relation
\* (E = 0, u = 1) with u_i.cmE the identity point.
C2_RelationsAndFreshIncoming ==
    steps >= 1 =>
        /\ R1CS_check_instance_relation(r1cs, W_i, U_i).ok
        /\ R1CS_check_instance_relation(r1cs, w_i, u_i).ok
        /\ is_zero_vec(w_i.E)
        /\ u_i.u = 1
        /\ u_i.cmE = C1_zero

\* C3: after every successful prove_step u_i.x = [H(i, z_0, z_i, U_i)], H
\* hashing (i, z_0, z_i, U.u, U.x, limbs(cmE.x), limbs(cmE.y), limbs(cmW.x),
\* limbs(cmW.y)) in this order.
C3_Coords(p1) == IF p1 = C1_zero THEN <<0, 1>> ELSE AffineXY(p1)
C3_H(i1, z0, zi, U) ==
    CRH_evaluate(<<i1>> \o z0 \o zi \o <<U.u>> \o U.x
                 \o get_limbs_representations(C3_Coords(U.cmE)[1])
                 \o get_limbs_representations(C3_Coords(U.cmE)[2])
                 \o get_limbs_representations(C3_Coords(U.cmW)[1])
                 \o get_limbs_representations(C3_Coords(U.cmW)[2]))
C3_InstanceHash ==
    steps >= 1 => u_i.x = << C3_H(i, z_0, z_i, U_i) >>
C3_Witness ==
    /\ steps >= 2
    /\ U_i.cmE # C1_zero
    /\ U_i.cmE # U_i.cmW
    /\ z_i # z_0
    /\ u_i.x = << C3_H(i, z_0, z_i, U_i) >>

\* C4: in prove_step with i > 0 the challenge r is squeezed only after
\* (pp_hash, U_i, u_i) and then cmT have been absorbed, in that order.
C4_InstanceElements(U) ==
    <<U.u>> \o U.x
    \o point_to_nonnative_limbs(U.cmE).x \o point_to_nonnative_limbs(U.cmE).y
    \o point_to_nonnative_limbs(U.cmW).x \o point_to_nonnative_limbs(U.cmW).y
C4_PointElements(p1) ==
    point_to_nonnative_limbs(p1).x \o point_to_nonnative_limbs(p1).y
\* the values absorbed since the previous squeeze
RECURSIVE C4_AbsorbedTail(_)
C4_AbsorbedTail(log) ==
    IF log = <<>> \/ log[Len(log)].op = "squeeze" THEN <<>>
    ELSE Append(C4_AbsorbedTail(SubSeq(log, 1, Len(log) - 1)), log[Len(log)].v)
C4_ChallengeAfterAbsorbs ==
    (last.op = "prove_step" /\ last.i > 0) =>
        \E pp_hash \in Fr :
            C4_AbsorbedTail(last.log) =
                <<pp_hash>> \o C4_InstanceElements(last.U_i)
                \o C4_InstanceElements(last.u_i) \o C4_PointElements(last.cmT)

\* ------------------------------------------------------------------------
\* Properties of the onchain decider
\* ------------------------------------------------------------------------
\* C5: Decider.verify returns Err(NotEnoughSteps) whenever i <= 1, for every
\* proof and every pair of commitment lists, before the commitments are
\* folded and before any Groth16 or KZG check runs; for i >= 2 it never
\* returns NotEnoughSteps.
C5_NotEnoughSteps ==
    decider_last.op = "verify" =>
        /\ decider_last.args.i <= 1 =>
              /\ decider_last.res = Err("NotEnoughSteps")
              /\ decider_last.ran = <<>>
        /\ decider_last.args.i >= 2 => decider_last.res.err # "NotEnoughSteps"
C5_Witness ==
    /\ decider_last.op = "verify"
    /\ decider_last.args.i = 1
    /\ decider_last.tamper \in {"none", "i1", "short", "pi_W"}
    /\ decider_last.res = Err("NotEnoughSteps")

\* The checks of Decider.verify, recomputed from the arguments of the call
C6_Folded(a) ==
    << PointAdd(a.running[1], PointMul(a.incoming[1], a.proof.r)),
       PointAdd(PointAdd(a.running[2], PointMul(a.proof.cmT, a.proof.r)),
                PointMul(a.incoming[2], FMul(a.proof.r, a.proof.r))) >>
C6_Foldable(a) == Len(a.running) >= 2 /\ Len(a.incoming) >= 2
C6_Groth16(a) ==
    S_verify(a.vp.snark_vp,
             Decider_public_input(a.vp.pp_hash, a.i, a.z_0, a.z_i, C6_Folded(a), a.proof),
             a.proof.snark_proof)
C6_Opening(a, k) ==
    KZG10_check(a.vp.cs_vp, C6_Folded(a)[k], a.proof.kzg_challenges[k],
                a.proof.kzg_proofs[k].eval, a.proof.kzg_proofs[k].proof)

\* C6: Decider.verify returns Ok(true) only if i > 1, the Groth16 verification
\* of the assembled public input accepts and every KZG opening verifies; a
\* Groth16 rejection yields Err(SNARKVerificationFail) without running the KZG
\* checks, a failing KZG opening yields Err(CommitmentVerificationFail), and
\* an error raised while verifying is returned as Err, never as Ok(false).
C6_VerifyOutcomes ==
    decider_last.op = "verify" =>
        LET a == decider_last.args
            res == decider_last.res
        IN  /\ res.ok =>
                  /\ res.val = TRUE
                  /\ a.i > 1
                  /\ C6_Foldable(a)
                  /\ C6_Groth16(a) = Ok(TRUE)
                  /\ \A k \in 1..2 : C6_Opening(a, k)
            /\ (a.i > 1 /\ C6_Foldable(a) /\ C6_Groth16(a) = Ok(FALSE)) =>
                  /\ res = Err("SNARKVerificationFail")
                  /\ \A k \in 1..Len(decider_last.ran) : decider_last.ran[k] # "kzg"
            /\ (a.i > 1 /\ C6_Foldable(a) /\ C6_Groth16(a) = Ok(TRUE)
                /\ \E k \in 1..2 : ~C6_Opening(a, k)) =>
                  res = Err("CommitmentVerificationFail")
            /\ (a.i > 1 /\ C6_Foldable(a) /\ ~C6_Groth16(a).ok) =>
                  /\ ~res.ok
                  /\ res.err \notin {"SNARKVerificationFail", "CommitmentVerificationFail"}
C6_Witness ==
    /\ decider_last.op = "verify"
    /\ decider_last.tamper = "pi_E"
    /\ C6_Groth16(decider_last.args) = Ok(TRUE)
    /\ C6_Opening(decider_last.args, 1)
    /\ ~C6_Opening(decider_last.args, 2)
    /\ decider_last.res = Err("CommitmentVerificationFail")

\* C7: for a driver on which at least 2 prove_step calls succeeded, with
\* decider parameters from Decider.preprocess, Decider.prove succeeds and
\* Decider.verify on the driver's values and the proof returns Ok(true), also
\* when it is run a second time on the same inputs.
C7_ProveThenVerify ==
    /\ (decider_proof.made /\ decider_proof.i >= 2) => decider_proof.res.ok
    /\ (decider_last.op = "verify" /\ decider_last.tamper = "none"
        /\ decider_last.args.i >= 2) =>
          /\ decider_last.res = Ok(TRUE)
          /\ Decider_verify(decider_last.args.vp, decider_last.args.i,
                            decider_last.args.z_0, decider_last.args.z_i,
                            decider_last.args.running, decider_last.args.incoming,
                            decider_last.args.proof).res = Ok(TRUE)
C7_Witness ==
    /\ steps >= 2
    /\ decider_last.op = "verify"
    /\ decider_last.tamper = "none"
    /\ decider_last.args.i = steps
    /\ decider_last.args.proof.r > 1
    /\ decider_last.args.proof.cmT # C1_zero
    /\ decider_last.res = Ok(TRUE)

\* C8: verify(VP, ivc_proof(driver)) returns Ok(()) after any number (at least
\* one) of successful prove_step calls.
C8_IVCProofVerifies ==
    (decider_last.op = "ivc_verify" /\ decider_last.tamper = "none" /\ steps >= 1) =>
        decider_last.res = Ok(<<>>)
C8_Witness ==
    /\ decider_last.op = "ivc_verify"
    /\ decider_last.tamper = "none"
    /\ steps = MaxSteps
    /\ decider_last.args.i = steps
    /\ decider_last.res = Ok(<<>>)

\* C9: the Groth16 public input assembled by Decider.verify is the
\* concatenation of pp_hash, i, z_0, z_i, the limbs of each folded commitment
\* of U_final, kzg_challenges[0], kzg_challenges[1], kzg_proofs[0].eval,
\* kzg_proofs[1].eval, the limbs of cmT, and r, in this order.
C9_Limbs(p1) ==
    get_limbs_representations(C3_Coords(p1)[1])
    \o get_limbs_representations(C3_Coords(p1)[2])
C9_PublicInput ==
    (decider_last.op = "verify" /\ decider_last.public_input # <<>>) =>
        LET a == decider_last.args
            cmW == (a.running[1] + a.proof.r * a.incoming[1]) % P
            cmE == (a.running[2] + a.proof.r * a.proof.cmT
                    + a.proof.r * a.proof.r * a.incoming[2]) % P
        IN  decider_last.public_input =
                <<a.vp.pp_hash>> \o <<a.i>> \o a.z_0 \o a.z_i
                \o C9_Limbs(cmW) \o C9_Limbs(cmE)
                \o <<a.proof.kzg_challenges[1]>> \o <<a.proof.kzg_challenges[2]>>
                \o <<a.proof.kzg_proofs[1].eval>> \o <<a.proof.kzg_proofs[2].eval>>
                \o C9_Limbs(a.proof.cmT) \o <<a.proof.r>>
C9_Witness ==
    /\ decider_last.op = "verify"
    /\ decider_last.res = Ok(TRUE)
    /\ Len(decider_last.public_input) = 21
    /\ decider_last.args.proof.cmT # C1_zero
    /\ decider_last.args.running[2] # C1_zero
    /\ decider_last.args.proof.kzg_challenges[1] # decider_last.args.proof.kzg_challenges[2]

\* C10: prepare_calldata returns the concatenation of the 4-byte selector, i,
\* the elements of z_0, the elements of z_i, running cmW, running cmE,
\* incoming cmW, cmT, r, Groth16 a (G1), b (G2), c (G1), chal_W, chal_E,
\* eval_W, eval_E, pi_W, pi_E; every field element big-endian, every G1 point
\* x followed by y, the point at infinity as (0, 0).
RECURSIVE C10_BE(_, _)
C10_BE(v, n) == IF n = 0 THEN <<>> ELSE Append(C10_BE(v \div 256, n - 1), v % 256)
C10_Fe(v) == C10_BE(v, NumBytes)
C10_G1(p1) ==
    IF p1 = C1_zero THEN C10_Fe(0) \o C10_Fe(0)
    ELSE C10_Fe(AffineXY(p1)[1]) \o C10_Fe(AffineXY(p1)[2])
RECURSIVE C10_Vec(_)
C10_Vec(v) == IF v = <<>> THEN <<>> ELSE C10_Fe(v[1]) \o C10_Vec(SubSeq(v, 2, Len(v)))
C10_Calldata ==
    decider_last.op = "prepare_calldata" =>
        LET pr == decider_proof.res.val
            b == pr.snark_proof.b
        IN  /\ decider_last.res.ok
            /\ decider_last.res.val =
                  function_signature_check
                  \o C10_Fe(decider_proof.i)
                  \o C10_Vec(decider_proof.z_0) \o C10_Vec(decider_proof.z_i)
                  \o C10_G1(decider_proof.U_i.cmW) \o C10_G1(decider_proof.U_i.cmE)
                  \o C10_G1(decider_proof.u_i.cmW)
                  \o C10_G1(pr.cmT) \o C10_Fe(pr.r)
                  \o C10_G1(pr.snark_proof.a)
                  \o C10_Fe(b.x.c1) \o C10_Fe(b.x.c0) \o C10_Fe(b.y.c1) \o C10_Fe(b.y.c0)
                  \o C10_G1(pr.snark_proof.c)
                  \o C10_Fe(pr.kzg_challenges[1]) \o C10_Fe(pr.kzg_challenges[2])
                  \o C10_Fe(pr.kzg_proofs[1].eval) \o C10_Fe(pr.kzg_proofs[2].eval)
                  \o C10_G1(pr.kzg_proofs[1].proof) \o C10_G1(pr.kzg_proofs[2].proof)
C10_Witness ==
    /\ decider_last.op = "prepare_calldata"
    /\ decider_last.res.ok
    /\ Len(decider_last.res.val) = 4 + 28 * NumBytes
    /\ decider_proof.i >= 2
    /\ decider_proof.U_i.cmW # C1_zero
    /\ decider_proof.res.val.cmT = C1_zero

\* C11: for hashing, the point at infinity is represented by the coordinates
\* (0, 1) both natively and in-circuit, and for every point the native limbs
\* equal the values of the in-circuit limbs, so that the native and the
\* in-circuit instance hash of an instance agree.
C11_LimbsAgree ==
    lib.op = "limbs" =>
        /\ lib.native = lib.circuit
        /\ lib.p = C1_zero =>
              /\ lib.native = [x |-> <<0, 0>>, y |-> <<0, 1>>]
              /\ lib.circuit = [x |-> <<0, 0>>, y |-> <<0, 1>>]
        /\ lib.hash_native = lib.hash_circuit
C11_Witness ==
    /\ lib.op = "limbs"
    /\ lib.p = C1_zero
    /\ lib.U.cmW # C1_zero
    /\ lib.hash_native = lib.hash_circuit

\* C12: KZG commit and prove_with_challenge (hence prove) return the
\* hiding-not-supported error whenever the blinding value is non-zero or H
\* is true, and verify_with_challenge (hence verify) whenever H is true;
\* nothing is produced, whatever the pairing check would have said.
C12_HidingNotSupported ==
    /\ (lib.op \in {"commit", "prove"} /\ (lib.blind # 0 \/ lib.H))
          => lib.res = Err("NotSupportedYet")
    /\ (lib.op = "verify" /\ lib.H) => lib.res = Err("NotSupportedYet")
    /\ (lib.op = "open" /\ lib.H)
          => /\ lib.prove = Err("NotSupportedYet")
             /\ lib.res = Err("NotSupportedYet")
C12_Witness ==
    /\ lib.op = "verify"
    /\ lib.H
    /\ lib.cm # C1_zero
    /\ FMul(FSub(lib.cm, lib.proof.eval), 1)
          = FMul(lib.proof.proof, FSub(lib.vk.beta_h, lib.challenge))
    /\ lib.res = Err("NotSupportedYet")

\* C13 (as stated): commit with a non-zero blinding value under the
\* non-hiding flag (H = false) fails with BlindingNotZero.
C13_BlindingNotZero ==
    (lib.op = "commit" /\ ~lib.H /\ lib.blind # 0)
        => lib.res = Err("BlindingNotZero")
\* C13 (amended): KZG commit with a non-zero blinding value under H = false
\* fails with the hiding-not-supported error, and no KZG commit returns
\* BlindingNotZero.
C13_NonZeroBlindingIsHidingError ==
    lib.op = "commit" =>
        /\ (~lib.H /\ lib.blind # 0) => lib.res = Err("NotSupportedYet")
        /\ lib.res.err # "BlindingNotZero"
C13_Witness ==
    /\ lib.op = "commit"
    /\ ~lib.H
    /\ lib.blind # 0
    /\ lib.v # <<>>
    /\ ~lib.res.ok

\* the degree of a polynomial given by its coefficients, lowest first
C14_Degree(pol) ==
    LET nz == {k \in 1..Len(pol) : pol[k] # 0}
    IN  IF nz = {} THEN 0 ELSE (CHOOSE k \in nz : \A j \in nz : j <= k) - 1
\* C14: with zero blinding and H = false, KZG commit and prove_with_challenge
\* fail with the polynomial-too-large error exactly when the degree of the
\* polynomial built from v is >= |powers_of_g|, and succeed otherwise.
C14_DegreeCheck ==
    (lib.op \in {"commit", "prove"} /\ ~lib.H /\ lib.blind = 0) =>
        IF C14_Degree(poly_from_vec(lib.v).val) >= Len(lib.pk.powers_of_g)
        THEN lib.res = Err("TooManyCoefficients")
        ELSE lib.res.ok
C14_Witness ==
    /\ lib.op = "commit"
    /\ ~lib.H
    /\ lib.blind = 0
    /\ C14_Degree(poly_from_vec(lib.v).val) = Len(lib.pk.powers_of_g)
    /\ lib.res = Err("TooManyCoefficients")

\* p(z), and the quotient of p by X - z: q_k = sum_{j > k} p_j * z^(j-k-1)
C15_Eval(pol, z) ==
    LET horner[k \in 0..Len(pol)] ==
            IF k = 0 THEN 0 ELSE (horner[k - 1] * z + pol[Len(pol) - k + 1]) % P
    IN  horner[Len(pol)]
C15_Quotient(pol, z) ==
    IF pol = <<>> THEN <<>>
    ELSE [k \in 1..(Len(pol) - 1) |-> C15_Eval(SubSeq(pol, k + 1, Len(pol)), z)]
C15_MSM(bases, scalars) ==
    LET acc[k \in 0..Len(scalars)] ==
            IF k = 0 THEN 0 ELSE (acc[k - 1] + bases[k] * scalars[k]) % P
    IN  acc[Len(scalars)]
\* C15: for zero blinding and p within the degree bound,
\* prove_with_challenge(v, chal) returns eval = p(chal) and proof = the MSM
\* of all the coefficients of q against powers_of_g, where
\* p(X) = q(X) * (X - chal) + p(chal) at every X.
C15_ProveOutput ==
    (lib.op = "prove" /\ lib.res.ok) =>
        LET p == poly_from_vec(lib.v).val
            q == C15_Quotient(p, lib.challenge)
        IN  /\ lib.res.val.eval = C15_Eval(p, lib.challenge)
            /\ lib.res.val.proof = C15_MSM(lib.pk.powers_of_g, q)
            /\ \A X \in Fr :
                  C15_Eval(p, X) = (C15_Eval(q, X) * (X + P - lib.challenge)
                                    + C15_Eval(p, lib.challenge)) % P
C15_Witness ==
    /\ lib.op = "prove"
    /\ lib.res.ok
    /\ Len(poly_from_vec(lib.v).val) = 3
    /\ C15_Quotient(poly_from_vec(lib.v).val, lib.challenge)[1] = 0
    /\ lib.res.val.eval # 0
    /\ lib.res.val.proof # C1_zero

\* C16: for keys from setup, v within the degree bound and zero blinding,
\* with cm = commit(v) and proof = prove(transcript_p, cm, v): prove
\* succeeds, and when transcript_p and transcript_v start in the same state
\* verify(transcript_v, cm, proof) returns Ok, and with proof.eval replaced
\* by eval + 1 it returns Err(CommitmentVerificationFail).
C16_OpenVerifies ==
    (lib.op = "open" /\ ~lib.H) =>
        /\ lib.prove.ok
        /\ lib.cfg_p = lib.cfg_v =>
              IF lib.tamper THEN lib.res = Err("CommitmentVerificationFail")
              ELSE lib.res = Ok(<<>>)
C16_Witness ==
    /\ lib.op = "open"
    /\ ~lib.H
    /\ lib.tamper
    /\ lib.cfg_p = lib.cfg_v
    /\ Len(lib.v) = MaxVecLen
    /\ lib.cm # C1_zero
    /\ lib.res = Err("CommitmentVerificationFail")

\* the product of row r of M with z, and (Az) o (Bz) - z[0] * (Cz)
C17_Dot(row, z) ==
    LET acc[k \in 0..Len(z)] ==
            IF k = 0 THEN 0 ELSE (acc[k - 1] + row[k] * z[k]) % P
    IN  acc[Len(z)]
C17_E(rel, z) ==
    [r \in 1..rel.A.n_rows |->
        (C17_Dot(rel.A.rows[r], z) * C17_Dot(rel.B.rows[r], z)
         + P * P - z[1] * C17_Dot(rel.C.rows[r], z)) % P]
C17_Matching ==
    /\ Len(<<1>> \o lib.x \o lib.w) = lib.r1cs.A.n_cols
    /\ Len(<<1>> \o lib.x \o lib.w) = lib.r1cs.B.n_cols
    /\ Len(<<1>> \o lib.x \o lib.w) = lib.r1cs.C.n_cols
\* C17: for an R1CS and z = (1, x, w) of matching length, eval_relation
\* returns the vector e = (Az) o (Bz) - z[0] * (Cz) of length m, and
\* check_relation returns Ok exactly when e is the zero vector and
\* Err(NotSatisfied) otherwise.
C17_EvalRelation ==
    (lib.op = "r1cs" /\ C17_Matching) =>
        LET e == C17_E(lib.r1cs, <<1>> \o lib.x \o lib.w)
        IN  /\ lib.eval = Ok(e)
            /\ Len(lib.eval.val) = lib.r1cs.A.n_rows
            /\ lib.check = IF \A r \in 1..Len(e) : e[r] = 0
                           THEN Ok(<<>>) ELSE Err("NotSatisfied")
C17_Witness ==
    /\ lib.op = "r1cs"
    /\ C17_Matching
    /\ lib.r1cs = get_test_r1cs
    /\ lib.x # <<0>>
    /\ lib.check = Ok(<<>>)

\* C18: eval_relation and check_relation return the shape-mismatch error,
\* and no evaluation, whenever the length of z = (1, x, w) differs from the
\* number of columns of any of the matrices A, B, C.
C18_ShapeMismatch ==
    (lib.op = "r1cs" /\ ~C17_Matching) =>
        /\ lib.eval = Err("NotSameLength")
        /\ lib.check = Err("NotSameLength")
C18_Witness ==
    /\ lib.op = "r1cs"
    /\ Len(<<1>> \o lib.x \o lib.w) = lib.r1cs.A.n_cols
    /\ Len(<<1>> \o lib.x \o lib.w) = lib.r1cs.B.n_cols
    /\ Len(<<1>> \o lib.x \o lib.w) # lib.r1cs.C.n_cols
    /\ lib.eval = Err("NotSameLength")

\* C19: converting an R1CS to CCS and back with R1CS::from(ccs) is the
\* identity: the same l and the same matrices A = M[0], B = M[1], C = M[2].
C19_RoundTrip ==
    lib.op = "ccs" =>
        /\ lib.back = lib.r1cs
        /\ lib.back.l = lib.r1cs.l
        /\ lib.back.A = lib.ccs.M[1] /\ lib.back.A = lib.r1cs.A
        /\ lib.back.B = lib.ccs.M[2] /\ lib.back.B = lib.r1cs.B
        /\ lib.back.C = lib.ccs.M[3] /\ lib.back.C = lib.r1cs.C
C19_Witness ==
    /\ lib.op = "ccs"
    /\ lib.r1cs.A # lib.r1cs.B
    /\ lib.r1cs.B # lib.r1cs.C
    /\ lib.r1cs.B.n_cols # lib.r1cs.C.n_cols
    /\ lib.back = lib.r1cs

\* C20 (as stated): every Witness held by the driver has |E| = m (the number
\* of constraints) and |W| = m - l - 1, and every CommittedInstance has
\* |x| = l.
C20_WitnessLengthsByConstraints ==
    /\ \A W1 \in {w_i, W_i} :
          /\ Len(W1.E) = r1cs.A.n_rows
          /\ Len(W1.W) = r1cs.A.n_rows - r1cs.l - 1
    /\ \A U1 \in {u_i, U_i} : Len(U1.x) = r1cs.l
\* C20 (amended): every Witness held by the driver has |E| = m, the number of
\* constraints (rows), and |W| = n - l - 1 with n the number of variables
\* (columns); every CommittedInstance has |x| = l.
C20_Lengths ==
    /\ \A W1 \in {w_i, W_i} :
          /\ Len(W1.E) = r1cs.A.n_rows
          /\ Len(W1.W) = r1cs.A.n_cols - r1cs.l - 1
    /\ \A U1 \in {u_i, U_i} : Len(U1.x) = r1cs.l
C20_Witness ==
    /\ steps >= 2
    /\ r1cs.A.n_rows # r1cs.A.n_cols
    /\ W_i # w_i
    /\ Len(W_i.W) = r1cs.A.n_cols - r1cs.l - 1

\* ------------------------------------------------------------------------
\* Properties of long runs of prove_step
\* ------------------------------------------------------------------------
\* C21: prove_step reports Err(MaxStep) instead of advancing when the step
\* counter i would overflow its bound: i never wraps around (it always is the
\* number of successful calls), and the call made at the largest value of i
\* returns Err(MaxStep) and leaves i where it was.
C21_MaxStepOnOverflow ==
    /\ i = steps
    /\ (last.op = "prove_step" /\ last.i = P - 1) =>
          /\ last.result = "Err"
          /\ last.err = "MaxStep"
          /\ i = last.i

\* ------------------------------------------------------------------------
\* Properties of the library calls on malformed inputs
\* ------------------------------------------------------------------------
\* C22: no library operation panics: eval_at_z, num_witnesses, split_z and
\* KZG setup return, and report a failed precondition (R1CS::empty(), an
\* empty z, a z shorter than l + 1, a failing trusted setup) as an Err value;
\* a prove_step call returns Ok or Err.
C22_NoPanic ==
    /\ lib.op = "shape" =>
          /\ lib.eval_at_z.err # Panic.err
          /\ lib.num_witnesses.err # Panic.err
          /\ lib.split_z.err # Panic.err
    /\ lib.op = "setup" => lib.res.err # Panic.err
    /\ last.op = "prove_step" => last.result \in {"Ok", "Err"}

\* What one prove_step call makes of a driver, as a function of the fields
\* of the driver alone: pre holds i, z_0, z_i, U_i, W_i, u_i, w_i and the
\* transcript log before the call; cfg, pp, rel and fc are the transcript
\* configuration, the commitment parameters, the R1CS and the step circuit.
C23_After(pre, cfg, pp, rel, fc) ==
    LET z1 == F_step_native(fc, pre.z_i)
        fresh(x) ==
            LET zz == FMul(pre.z_i[1], pre.z_i[1])
                w == <<pre.z_i[1], zz, FMul(zz, pre.z_i[1]),
                       FAdd(FMul(zz, pre.z_i[1]), pre.z_i[1])>>
                b == IF pp.scheme = "KZG" THEN 0 ELSE 1
            IN  [E |-> Zeros(rel.A.n_rows), rE |-> b, W |-> w, rW |-> b]
        done(ok, log, U1, W1, x) ==
            [ok |-> ok, log |-> log, i |-> FAdd(pre.i, 1), z_i |-> z1,
             U_i |-> U1, W_i |-> W1, x |-> x, w4 |-> fresh(x)]
        folded(sq, f) ==
            done(/\ R1CS_check_instance_relation(rel, pre.w_i, pre.u_i).ok
                 /\ R1CS_check_instance_relation(rel, pre.W_i, pre.U_i).ok
                 /\ R1CS_check_instance_relation(rel, f.W, f.U).ok,
                 sq.t.log, f.U, f.W,
                 CommittedInstance_hash(f.U, FAdd(pre.i, 1), pre.z_0, z1))
        squeezed(sq) ==
            folded(sq, NIFS_prove(pp, sq.c, rel, pre.w_i, pre.u_i, pre.W_i, pre.U_i))
    IN  IF pre.i = 0
        THEN done(TRUE, pre.log, pre.u_i, pre.w_i,
                  CommittedInstance_hash(pre.U_i, 1, pre.z_0, z1))
        ELSE squeezed(Transcript_get_challenge_nbits([cfg |-> cfg, log |-> pre.log],
                                                     N_BITS_CHALLENGE))
\* C23: prove_step consumes no randomness: the state a call leaves (i, z_0,
\* z_i, U_i, W_i, u_i, w_i and the transcript) and its result are a function
\* of the state it was made in, so two drivers in identical states are in
\* identical states afterwards; the parameters drawn from the RNG at
\* construction are the ones the driver keeps.
C23_NoRandomness ==
    last.op = "prove_step" =>
        \E g \in {C23_After(last, transcript.cfg, cs_pp, r1cs, F)} :
            /\ last.result = (IF g.ok THEN "Ok" ELSE "Err")
            /\ transcript.log = g.log
            /\ z_0 = last.z_0
            /\ \E seed \in 1..MaxSeed :
                  cs_pp \in {Pedersen_new_params(seed, r1cs.A.n_rows),
                             KZG_setup(seed, r1cs.A.n_rows).pk}
            /\ IF g.ok
               THEN /\ i = g.i /\ z_i = g.z_i /\ U_i = g.U_i /\ W_i = g.W_i
                    /\ w_i.E = g.w4.E /\ w_i.rE = g.w4.rE /\ w_i.rW = g.w4.rW
                    /\ SubSeq(w_i.W, 1, 4) = g.w4.W
                    /\ u_i = [cmE |-> CS1_commit(cs_pp, w_i.E, w_i.rE), u |-> 1,
                              cmW |-> CS1_commit(cs_pp, w_i.W, w_i.rW),
                              x |-> <<g.x>>]
               ELSE /\ i = last.i /\ z_i = last.z_i /\ U_i = last.U_i
                    /\ W_i = last.W_i /\ w_i = last.w_i /\ u_i = last.u_i
C23_Witness ==
    /\ last.op = "prove_step"
    /\ last.result = "Ok"
    /\ last.i >= 2
    /\ last.r > 1
    /\ cs_pp.scheme = "Pedersen"
    /\ U_i # last.U_i
    /\ Len(transcript.log) > Len(last.log)

\* C24: in prove_step at i = 0 no folding is performed: (W', U') is
\* (w_0, u_0), nothing is squeezed, cmT = 0 (the identity point) and r = 1 are
\* handed to the augmented circuit, and the hash of the new instance is
\* H(1, z_0, z_1, U_dummy).
C24_BaseCase ==
    (last.op = "prove_step" /\ last.i = 0) =>
        /\ last.result = "Ok"
        /\ last.W_i1 = last.w_i
        /\ last.U_i1 = last.u_i
        /\ transcript.log = last.log
        /\ last.r = 1
        /\ u_i.x = << C3_H(1, z_0, z_i, [cmE |-> C1_zero, u |-> 1, cmW |-> C1_zero,
                                         x |-> Zeros(r1cs.l)]) >>
        /\ last.cmT = C1_zero

\* the least power of two that is >= n
C25_NextPow2(n) ==
    CHOOSE q \in {2 ^ k : k \in 0..UsizeBits} :
        q >= n /\ \A k \in 0..UsizeBits : 2 ^ k >= n => q <= 2 ^ k
\* C25: KZG setup(len) returns a prover key with exactly
\* next_power_of_two(len) + 1 powers of g, so that with zero blinding a
\* polynomial of degree up to next_power_of_two(len), hence of degree exactly
\* len, passes the degree check of commit and prove_with_challenge, while
\* degree next_power_of_two(len) + 1 is rejected as too large.
C25_SetupLength ==
    /\ (lib.op = "setup" /\ lib.res.ok) =>
          Len(lib.res.val.pk.powers_of_g) = C25_NextPow2(lib.len) + 1
    /\ (lib.op \in {"commit", "prove"} /\ ~lib.H /\ lib.blind = 0) =>
          /\ Len(lib.pk.powers_of_g) = C25_NextPow2(lib.len) + 1
          /\ C14_Degree(poly_from_vec(lib.v).val) <= C25_NextPow2(lib.len)
                => lib.res.ok
          /\ C14_Degree(poly_from_vec(lib.v).val) = C25_NextPow2(lib.len) + 1
                => ~lib.res.ok /\ lib.res.err = "TooManyCoefficients"
C25_Witness ==
    /\ lib.op = "commit"
    /\ ~lib.H
    /\ lib.blind = 0
    /\ lib.len = MaxSetupLen
    /\ C14_Degree(poly_from_vec(lib.v).val) = lib.len
    /\ Len(lib.pk.powers_of_g) = C25_NextPow2(lib.len) + 1
    /\ lib.res.ok
    /\ lib.res.val # C1_zero

\* ------------------------------------------------------------------------
\* Properties of the sum-check verifier gadget
\* ------------------------------------------------------------------------
\* the transcript log after round k, the challenge of round k and the claim
\* checked in round k, for the call recorded in lib
RECURSIVE C26_Log(_)
C26_Log(k) ==
    IF k = 0 THEN lib.t.log
    ELSE C26_Log(k - 1)
         \o [j \in 1..Len(lib.polys[k]) |-> [op |-> "absorb", v |-> lib.polys[k][j]]]
         \o << [op |-> "squeeze", v |-> 0] >>
C26_Challenge(k) ==
    SpongeDigest([cfg |-> lib.t.cfg,
                  log |-> SubSeq(C26_Log(k), 1, Len(C26_Log(k)) - 1)])
C26_Claim(k) ==
    IF k = 1 THEN lib.claim ELSE C15_Eval(lib.polys[k - 1], C26_Challenge(k - 1))
\* C26: verify_sumcheck processes the round polynomials in order: in round k
\* it enforces p_k(0) + p_k(1) = the current claim (the input claim in round
\* 1, p_(k-1)(r_(k-1)) afterwards), then absorbs the coefficients of p_k and
\* only then squeezes r_k; it returns p_n(r_n) and r_1..r_n in round order,
\* where p(r) = sum of coeffs[j] * r^j.
C26_SumCheckRounds ==
    (lib.op = "sumcheck" /\ lib.res.ok) =>
        LET n == Len(lib.polys)
            out == lib.res.val
        IN  /\ Len(out.cs) = n
            /\ \A k \in 1..n :
                  out.cs[k] = << (C15_Eval(lib.polys[k], 0)
                                  + C15_Eval(lib.polys[k], 1)) % P, C26_Claim(k) >>
            /\ out.t.log = C26_Log(n)
            /\ out.r_vars = [k \in 1..n |-> C26_Challenge(k)]
            /\ out.e = C26_Claim(n + 1)
C26_Witness ==
    /\ lib.op = "sumcheck"
    /\ lib.res.ok
    /\ Len(lib.polys) = MaxRounds
    /\ \A k \in 1..Len(lib.polys) : Len(lib.polys[k]) = 2 /\ lib.polys[k][2] # 0
    /\ \A k \in 1..Len(lib.polys) : lib.res.val.cs[k][1] = lib.res.val.cs[k][2]
    /\ lib.res.val.r_vars[1] # lib.res.val.r_vars[2]
    /\ lib.res.val.r_vars[1] > 1
    /\ lib.res.val.e # lib.claim

\* ------------------------------------------------------------------------
\* Properties of the HyperNova decider circuit
\* ------------------------------------------------------------------------
\* The sponge that has seen the first n operations of a log
C27_Prefix(cfg, log, n) == [cfg |-> cfg, log |-> SubSeq(log, 1, n)]
\* The position of the last squeeze before position n (0 when there is none)
C27_LastSqueeze(log, n) ==
    LET sq == {k \in 1..(n - 1) : log[k].op = "squeeze"}
    IN  IF sq = {} THEN 0 ELSE CHOOSE k \in sq : \A m \in sq : m <= k

\* C27: when the HyperNova decider circuit is built from a driver, the
\* transcript absorbs pp_hash first, the final fold is run on that transcript
\* (its challenge is squeezed from it and combines U_i and u_i into U_{i+1}),
\* and only then the KZG challenges are squeezed, after absorbing the folded
\* instance; the k-th KZG evaluation is the evaluation of the k-th opening of
\* W_{i+1} at the k-th challenge.  The in-circuit fold absorbs pp_hash first as
\* well and enforces that the challenge it recomputes equals the randomness
\* handed in by the prover.
C27_HyperNovaDecider ==
    lib.op = "hypernova" =>
        LET c == lib.circuit.val
            cfg == lib.hn.poseidon_config
            log == c.transcript.log
            n == Len(log)
            rho_at == C27_LastSqueeze(log, n)
            rho == SpongeDigest(C27_Prefix(cfg, log, rho_at - 1)) % (2 ^ N_BITS_CHALLENGE)
            g == lib.gadget.val
            glog == g.t.log
        IN  /\ lib.circuit.ok
            /\ log[1] = [op |-> "absorb", v |-> lib.hn.pp_hash]
            /\ 1 < rho_at
            /\ log[n].op = "squeeze"
            /\ c.randomness = rho
            /\ c.U_i1.C = PointAdd(lib.hn.U_i.C, PointMul(lib.hn.u_i.C, rho))
            /\ c.W_i1.w = [k \in 1..2 |->
                              FAdd(lib.hn.W_i.w[k], FMul(rho, lib.hn.w_i.w[k]))]
            /\ SubSeq(log, rho_at + 1, n - 1)
                  = [k \in 1..Len(C9_Limbs(c.U_i1.C)) |->
                        [op |-> "absorb", v |-> C9_Limbs(c.U_i1.C)[k]]]
            /\ c.kzg_challenges = <<SpongeDigest(C27_Prefix(cfg, log, n - 1))>>
            /\ Len(c.kzg_evaluations) = Len(c.kzg_challenges)
            /\ \A k \in DOMAIN c.kzg_challenges :
                  c.kzg_evaluations[k]
                      = C15_Eval(HyperNova_get_openings(c.W_i1)[k][1],
                                 c.kzg_challenges[k])
            /\ lib.gadget.ok
            /\ glog[1] = [op |-> "absorb", v |-> lib.hn.pp_hash]
            /\ glog[Len(glog)].op = "squeeze"
            /\ g.cs = << <<SpongeDigest(C27_Prefix(cfg, glog, Len(glog) - 1))
                               % (2 ^ N_BITS_CHALLENGE),
                           lib.randomness>> >>
            /\ (g.cs[1][1] = g.cs[1][2]) <=> (lib.randomness = c.randomness)
            /\ g.U_i1.C = c.U_i1.C

\* A driver whose fold draws a challenge above one and moves the
\* commitment, decided with the randomness of the circuit
C27_Witness ==
    /\ lib.op = "hypernova"
    /\ lib.circuit.ok
    /\ lib.circuit.val.randomness > 1
    /\ lib.circuit.val.U_i1.C # lib.hn.U_i.C
    /\ lib.circuit.val.kzg_evaluations[1] # 0
    /\ lib.randomness = lib.circuit.val.randomness
    /\ lib.gadget.val.cs[1][1] = lib.randomness

\* ------------------------------------------------------------------------
\* Properties of a prove_step call that fails
\* ------------------------------------------------------------------------
\* C28: when prove_step returns Err the driver is exactly as before the
\* call: i, z_0, z_i, (U_i, W_i), (u_i, w_i) and the state of the transcript
\* are unchanged.
C28_ErrLeavesDriver ==
    (last.op = "prove_step" /\ last.result = "Err") =>
        /\ i = last.i
        /\ z_0 = last.z_0
        /\ z_i = last.z_i
        /\ U_i = last.U_i
        /\ W_i = last.W_i
        /\ u_i = last.u_i
        /\ w_i = last.w_i
        /\ transcript.log = last.log

\* ------------------------------------------------------------------------
\* The KZG openings of the decider
\* ------------------------------------------------------------------------
\* C29: Decider.verify performs exactly two KZG opening verifications before
\* it returns Ok(true): kzg_proofs[k] is checked at kzg_challenges[k] against
\* the k-th folded commitment (W first, E second), whatever the lengths of
\* the running and incoming commitment lists handed in.  Decider.prove
\* produces the two proofs at the challenges of the circuit with zero
\* blinding, and fails with NotExpectedLength when the number of openings or
\* challenges is not 2.
C29_TwoOpenings ==
    /\ (decider_last.op = "verify" /\ decider_last.res.ok) =>
          /\ decider_last.res.val = TRUE
          /\ Cardinality({k \in DOMAIN decider_last.ran :
                             decider_last.ran[k] = "kzg"}) = 2
          /\ \A k \in 1..2 : C6_Opening(decider_last.args, k)
    /\ decider_proof.made =>
          LET c == DeciderEthCircuit_try_from(Nova_clone)
              openings == get_openings(c.W_i1)
              pr == decider_proof.res
          IN  /\ (Len(openings) # 2 \/ Len(c.kzg_challenges) # 2) =>
                    ~pr.ok /\ pr.err = "NotExpectedLength"
              /\ pr.ok =>
                    /\ Len(openings) = 2
                    /\ Len(pr.val.kzg_proofs) = 2
                    /\ pr.val.kzg_challenges = c.kzg_challenges
                    /\ Len(pr.val.kzg_challenges) = 2
                    /\ \A k \in 1..2 :
                          LET v == poly_from_vec(openings[k][1]).val
                              ch == pr.val.kzg_challenges[k]
                          IN  /\ pr.val.kzg_proofs[k].eval = C15_Eval(v, ch)
                              /\ pr.val.kzg_proofs[k].proof
                                    = C15_MSM(decider_params.pp.cs_pk.powers_of_g,
                                              C15_Quotient(v, ch))

\* verify accepts a proof of the driver although the caller handed in a
\* third running commitment, after both openings were checked
C29_Witness ==
    /\ decider_last.op = "verify"
    /\ decider_last.tamper = "long"
    /\ Len(decider_last.args.running) = 3
    /\ decider_last.res.ok
    /\ decider_last.ran = <<"fold", "snark", "kzg", "kzg">>
    /\ decider_proof.res.val.kzg_proofs[1].proof
          # decider_proof.res.val.kzg_proofs[2].proof

\* ------------------------------------------------------------------------
\* The split of z into witness and public input
\* ------------------------------------------------------------------------
\* C30: for every z whose length is the number of columns of the R1CS (at
\* least l + 1), split_z(z) = (w, x) has |x| = l and
\* |w| = num_witnesses() = n_cols - l - 1, and [z[0]] ++ x ++ w = z; when
\* z[0] = 1, eval_relation(w, x) equals eval_at_z(z).
C30_SplitZ ==
    (/\ lib.op = "shape"
     /\ Len(lib.z) = lib.r1cs.A.n_cols
     /\ lib.r1cs.A.n_cols >= lib.r1cs.l + 1) =>
        /\ lib.split_z.ok
        /\ Len(lib.split_z.val.x) = lib.r1cs.l
        /\ lib.num_witnesses.ok
        /\ lib.num_witnesses.val = lib.r1cs.A.n_cols - lib.r1cs.l - 1
        /\ Len(lib.split_z.val.w) = lib.num_witnesses.val
        /\ <<lib.z[1]>> \o lib.split_z.val.x \o lib.split_z.val.w = lib.z
        /\ lib.z[1] = 1 =>
              /\ lib.eval_relation.ok = lib.eval_at_z.ok
              /\ lib.eval_relation.err = lib.eval_at_z.err
              /\ lib.eval_at_z.ok => lib.eval_relation.val = lib.eval_at_z.val

\* The z of the test R1CS with z[0] = 1: a public input and several
\* witness elements, and an evaluation that is the zero vector
C30_Witness ==
    /\ lib.op = "shape"
    /\ lib.r1cs = get_test_r1cs
    /\ Len(lib.z) = lib.r1cs.A.n_cols
    /\ lib.z[1] = 1
    /\ lib.split_z.ok
    /\ lib.split_z.val.x # <<>>
    /\ Len(lib.split_z.val.w) > 1
    /\ lib.eval_relation.ok
    /\ is_zero_vec(lib.eval_relation.val)

====
